---- MODULE Spec2Model ----
(***************************************************************************)
(* A model of the Eldar player (src/AIEldar.cc): the per-round world       *)
(* model (build_board, compute_closest), the planner (approach_target),    *)
(* the role tasks and the instruction buffer flushed by play().            *)
(***************************************************************************)
EXTENDS Integers, Sequences, FiniteSets, TLC

(***************************************************************************)
(* Bounds of the model: the grid, the number of rounds and the host's game *)
(* settings (read by the player through the host API, scaled down).        *)
(***************************************************************************)
Rows == 3
Cols == 2
MaxRound == 2
NumRoundsPerDay == 4
LifeLostInAttack == 2
WarriorIniLife == 4
BuilderIniLife == 3
MaxNumBarricades == 2
BarricadeMaxResistance == 4
BuilderStrengthDemolish == 1
HammerStrengthDemolish == 2
GunStrengthDemolish == 3
BazookaStrengthDemolish == 4

(***************************************************************************)
(* Program constants.                                                      *)
(***************************************************************************)
BAZOOKA == 6
GUN == 5
HAMMER == 4
BUILDER == 3
FOOD == 2
MONEY == 1
EMPTY == 0
FRIENDLY_CITIZEN == -1
WALL == -2
ENEMY_BUILDER == -3
ENEMY_HAMMER == -4
ENEMY_GUN == -5
ENEMY_BAZOOKA == -6

NOT_IMPORTANT == -1
BUILD_PRIORITY == 0
RUN_PRIORITY == 15
RUN_DEATH_PRIORITY == 20
VERY_HIGH_PRIORITY == 500

MONEY_PROFIT == 12
HEALTH_PROFIT == 17
ABOUT_TO_DIE_BONUS == 5
ATTACK_PROFIT == 19
WEAPON_PROFIT == 25
STEAL_WEAPON_PROFIT == 12
BAZOOKA_EXTRA_PROFIT == 3
WARRIOR_EXTRA_PROFIT == 3

BARRICADE_THRESHOLD == 2
BARRICADE_INTERRUPT_THRESHOLD == 5
PERCENT_BUILD == 70
COST_WALK_INTO_FRIENDLY == 3

USHRT_MAX == 65535
INT_MIN == -2147483647 - 1

Directions == <<"Up", "Down", "Left", "Right">>

(***************************************************************************)
(* Positions and the host API the player reads.                            *)
(***************************************************************************)
Pos == (0 .. Rows - 1) \X (0 .. Cols - 1)

\* Pos + Dir
Step(p, d) ==
    CASE d = "Up" -> <<p[1] - 1, p[2]>>
      [] d = "Down" -> <<p[1] + 1, p[2]>>
      [] d = "Left" -> <<p[1], p[2] - 1>>
      [] OTHER -> <<p[1], p[2] + 1>>

pos_ok(p) == p \in Pos

me == 0

is_round_day(r) == (r % NumRoundsPerDay) < (NumRoundsPerDay \div 2)

is_round_night(r) == ~is_round_day(r)

\* C++ integer division truncates toward zero
CDiv(a, b) == IF a >= 0 THEN a \div b ELSE -((-a) \div b)

\* unsigned short arithmetic
U16(x) == x % 65536

VARIABLES
    round,                  \* host: round()
    cells,                  \* host: cell(p), one record per position
    citizens,               \* host: citizen(id), one record per live citizen
    sz_n, sz_m,
    Board, Board_Enemy, Board_Barricades,
    num_barricades,
    instruction_buffer,     \* the heap array of priority_queue<Instr>
    bonus_distances,        \* "null", "odd" or "even": which map the pointer names
    bonus_distances_prev,
    bonus_distances_odd,
    bonus_distances_even,
    pc,                     \* position inside play(): "host", "play", "tasks", "flush"
    todo,                   \* citizens still to be given their task this round
    inserted,               \* instructions pushed this round, in insertion order
    sent,                   \* commands handed to the host this round, in order
    plan                    \* what the last task did (the planner's trace)

vars == <<round, cells, citizens, sz_n, sz_m, Board, Board_Enemy, Board_Barricades,
          num_barricades, instruction_buffer, bonus_distances, bonus_distances_prev,
          bonus_distances_odd, bonus_distances_even, pc, todo, inserted, sent, plan>>

(***************************************************************************)
(* std::priority_queue over a vector: push_heap and pop_heap as libstdc++  *)
(* performs them, so that the order among equal keys is the build's.       *)
(***************************************************************************)

\* Instr::operator< comparing the ids the other way round
InstrLess_IdAscending(a, i) ==
    IF a.priority = i.priority THEN a.id > i.id ELSE a.priority < i.priority

\* Instr::operator<
InstrLess(a, i) ==
    IF a.priority = i.priority THEN a.id < i.id ELSE a.priority < i.priority

\* Vertex::operator<
VertexLess(a, i) == a.dist > i.dist

Less(a, b) == IF "dist" \in DOMAIN a THEN VertexLess(a, b) ELSE InstrLess(a, b)

RECURSIVE PushHeap(_, _, _, _)
\* std::__push_heap: indices are 0-based as in the library, the sequence 1-based
PushHeap(h, holeIndex, topIndex, value) ==
    LET parent == (holeIndex - 1) \div 2 IN
    IF holeIndex > topIndex /\ Less(h[parent + 1], value)
    THEN PushHeap([h EXCEPT ![holeIndex + 1] = h[parent + 1]], parent, topIndex, value)
    ELSE [h EXCEPT ![holeIndex + 1] = value]

RECURSIVE AdjustDown(_, _, _, _)
\* the loop of std::__adjust_heap: returns the array and the final hole/secondChild
AdjustDown(h, holeIndex, secondChild, len) ==
    IF secondChild < CDiv(len - 1, 2)
    THEN LET s0 == 2 * (secondChild + 1)
             s1 == IF Less(h[s0 + 1], h[s0]) THEN s0 - 1 ELSE s0
         IN  AdjustDown([h EXCEPT ![holeIndex + 1] = h[s1 + 1]], s1, s1, len)
    ELSE [h |-> h, hole |-> holeIndex, second |-> secondChild]

\* std::__adjust_heap
AdjustHeap(h, holeIndex, len, value) ==
    LET a == AdjustDown(h, holeIndex, holeIndex, len)
        b == IF len % 2 = 0 /\ a.second = CDiv(len - 2, 2)
             THEN LET s == 2 * (a.second + 1)
                  IN  [h |-> [a.h EXCEPT ![a.hole + 1] = a.h[s]], hole |-> s - 1]
             ELSE [h |-> a.h, hole |-> a.hole]
    IN  PushHeap(b.h, b.hole, holeIndex, value)

\* priority_queue::push
HeapPush(h, value) == PushHeap(Append(h, value), Len(h), 0, value)

\* priority_queue::top
HeapTop(h) == h[1]

\* priority_queue::pop
HeapPop(h) ==
    IF Len(h) <= 1 THEN <<>>
    ELSE AdjustHeap(SubSeq(h, 1, Len(h) - 1), 0, Len(h) - 1, h[Len(h)])

(***************************************************************************)
(* Small inline helpers of the player.                                     *)
(***************************************************************************)

\* my_weapon(cit)
my_weapon(cit) ==
    CASE cit.weapon = "NoWeapon" -> BUILDER
      [] cit.weapon = "Hammer" -> HAMMER
      [] cit.weapon = "Gun" -> GUN
      [] OTHER -> BAZOOKA

\* strength_demolish(weapon)
strength_demolish(weapon) ==
    CASE weapon = BUILDER -> BuilderStrengthDemolish
      [] weapon = HAMMER -> HammerStrengthDemolish
      [] weapon = GUN -> GunStrengthDemolish
      [] OTHER -> BazookaStrengthDemolish
\* update_danger(cell, enemy) without the comparison: the last enemy scanned wins
update_danger_LastWins(cell, enemy) ==
    IF cell > 0 THEN cell ELSE enemy

\* update_danger(cell, enemy): the new value of the Board_Enemy cell
update_danger(cell, enemy) ==
    IF cell > 0 \/ cell <= enemy THEN cell ELSE enemy

\* the row-major scan order of build_board's two nested loops
ScanOrder(n, m) == [k \in 1 .. n * m |-> <<(k - 1) \div m, (k - 1) % m>>]

\* the enemy code build_board gives a citizen of another player
EnemyCode(cit) ==
    CASE cit.type = "Builder" -> ENEMY_BUILDER
      [] cit.weapon = "Hammer" -> ENEMY_HAMMER
      [] cit.weapon = "Gun" -> ENEMY_GUN
      [] OTHER -> ENEMY_BAZOOKA

(***************************************************************************)
(* BUILD BOARD.  A world w is the player's view of one round: the host's   *)
(* cells, citizens and round, and the three matrices.                      *)
(***************************************************************************)

\* Bonus_Info(c)
Bonus_Info(c) == [type |-> c, closest_dist |-> 0, closest_is_friendly |-> FALSE]

\* initialize(): the three matrices, value-initialised
initialize(n, m) == [p \in (0 .. n - 1) \X (0 .. m - 1) |-> 0]

board(w, p) == w.Board[p]

board_enemy(w, p) == w.Board_Enemy[p]

board_barricades(w, p) == w.Board_Barricades[p]

\* the four update_danger calls around an enemy at p, in the order of the code
DangerAround(E, p, enemy) ==
    LET up == <<p[1] - 1, p[2]>>
        dn == <<p[1] + 1, p[2]>>
        lf == <<p[1], p[2] - 1>>
        rt == <<p[1], p[2] + 1>>
        E1 == IF pos_ok(up) THEN [E EXCEPT ![up] = update_danger(E[up], enemy)] ELSE E
        E2 == IF pos_ok(dn) THEN [E1 EXCEPT ![dn] = update_danger(E1[dn], enemy)] ELSE E1
        E3 == IF pos_ok(lf) THEN [E2 EXCEPT ![lf] = update_danger(E2[lf], enemy)] ELSE E2
    IN  IF pos_ok(rt) THEN [E3 EXCEPT ![rt] = update_danger(E3[rt], enemy)] ELSE E3

\* the body of build_board's scan for one cell p
ScanCell(st, p, hcells, hcit) ==
    LET c == hcells[p]
        isEnemy == c.type # "Building" /\ c.bonus = "None" /\ c.weapon = "NoWeapon"
                   /\ c.id # -1 /\ hcit[c.id].player # me
        code ==
            CASE c.type = "Building" -> WALL
              [] c.bonus = "Food" -> FOOD
              [] c.bonus = "Money" -> MONEY
              [] c.weapon = "Gun" -> GUN
              [] c.weapon = "Bazooka" -> BAZOOKA
              [] c.id # -1 -> IF hcit[c.id].player = me THEN FRIENDLY_CITIZEN
                              ELSE EnemyCode(hcit[c.id])
              [] OTHER -> EMPTY
        bonus ==
            IF c.type = "Building" \/ c.bonus = "Food" THEN st.bonus
            ELSE IF c.bonus = "Money" THEN
                 IF p \in DOMAIN st.bonus THEN st.bonus ELSE (p :> Bonus_Info("M")) @@ st.bonus
            ELSE IF c.weapon \in {"Gun", "Bazooka"} THEN
                 IF p \in DOMAIN st.bonus THEN st.bonus ELSE (p :> Bonus_Info("W")) @@ st.bonus
            ELSE st.bonus
        E == IF isEnemy
             THEN DangerAround([st.Board_Enemy EXCEPT ![p] = hcit[c.id].life], p, code)
             ELSE st.Board_Enemy
        R == IF c.resistance = -1 THEN 0
             ELSE IF c.b_owner = me THEN c.resistance ELSE -c.resistance
    IN  [Board |-> [st.Board EXCEPT ![p] = code],
         Board_Enemy |-> E,
         Board_Barricades |-> [st.Board_Barricades EXCEPT ![p] = R],
         bonus |-> bonus]

RECURSIVE ScanFrom(_, _, _, _, _)
ScanFrom(st, k, order, hcells, hcit) ==
    IF k > Len(order) THEN st
    ELSE ScanFrom(ScanCell(st, order[k], hcells, hcit), k + 1, order, hcells, hcit)

(***************************************************************************)
(* compute_closest: the search from a bonus to its closest citizen.        *)
(***************************************************************************)

RECURSIVE ClosestRelax(_, _, _, _)
\* the expansion loop of compute_closest from u, directions k..4
ClosestRelax(st, u, k, w) ==
    IF k > 4 THEN st
    ELSE LET new_p == Step(u, Directions[k])
             new_distance == U16(st.dist[u] + 1)
             \* the barricade cost is added to the local copy `distance', which is
             \* not read again: it changes neither new_distance nor the record
         IN  IF pos_ok(new_p) /\ board(w, new_p) # WALL /\ new_distance < st.dist[new_p]
             THEN ClosestRelax([st EXCEPT !.dist[new_p] = new_distance,
                                          !.Q = HeapPush(st.Q, [dist |-> new_distance,
                                                                pos |-> new_p,
                                                                dir |-> "None"])],
                               u, k + 1, w)
             ELSE ClosestRelax(st, u, k + 1, w)
\* the entitlement that lets any citizen count for a weapon as it does for money
ClosestEntitled_AnyCitizen(w, u, info, WEAPON) ==
    board(w, u) <= ENEMY_BUILDER \/ board(w, u) = FRIENDLY_CITIZEN

\* whether the citizen on u is entitled to the bonus (the two returning branches)
ClosestEntitled(w, u, info, WEAPON) ==
    /\ (board(w, u) <= ENEMY_BUILDER \/ board(w, u) = FRIENDLY_CITIZEN)
    /\ \/ info.type = "M"
       \/ /\ info.type = "W"
          /\ \/ /\ board(w, u) = FRIENDLY_CITIZEN
                /\ w.citizens[w.cells[u].id].type = "Warrior"
                /\ my_weapon(w.citizens[w.cells[u].id]) < WEAPON
             \/ /\ board(w, u) # FRIENDLY_CITIZEN
                /\ board(w, u) < ENEMY_BUILDER
                /\ -board(w, u) < WEAPON

\* the test on the visited matrix that lets every dequeued cell through
AlreadyVisited_Never(visited, u) == FALSE

\* whether a dequeued cell has been treated before (lines 223 and 491)
AlreadyVisited(visited, u) == visited[u]

RECURSIVE ClosestLoop(_, _, _)
ClosestLoop(st, w, WEAPON) ==
    IF st.Q = <<>> THEN st
    ELSE LET u == HeapTop(st.Q).pos
             Q1 == HeapPop(st.Q)
         IN  IF AlreadyVisited(st.visited, u) THEN ClosestLoop([st EXCEPT !.Q = Q1], w, WEAPON)
             ELSE LET distance == st.dist[u]
                      s1 == [st EXCEPT !.Q = Q1, !.visited[u] = TRUE,
                                       !.order = Append(st.order, u)]
                  IN  IF ClosestEntitled(w, u, st.info, WEAPON)
                      THEN [s1 EXCEPT !.info.closest_is_friendly =
                                           (board(w, u) = FRIENDLY_CITIZEN),
                                      !.info.closest_dist = distance,
                                      !.found = TRUE]
                      ELSE ClosestLoop(ClosestRelax(s1, u, 1, w), w, WEAPON)

\* the whole search, with its working state
ClosestSearch(origin, info, w) ==
    ClosestLoop([dist |-> [[p \in DOMAIN w.Board |-> USHRT_MAX] EXCEPT ![origin] = 0],
                 visited |-> [p \in DOMAIN w.Board |-> FALSE],
                 Q |-> HeapPush(<<>>, [dist |-> 0, pos |-> origin, dir |-> "None"]),
                 info |-> info, found |-> FALSE, order |-> <<>>],
                w, board(w, origin))

\* compute_closest(origin, info): the record as the search leaves it
compute_closest(origin, info, w) == ClosestSearch(origin, info, w).info
\* the start of build_board without the loop that sets Board_Enemy to 0
ClearBoard_EnemyKept(old) == [old EXCEPT !.bonus = <<>>]

\* the start of build_board (lines 290-295): the records cleared, Board_Enemy zeroed
ClearBoard(old) ==
    [old EXCEPT !.Board_Enemy = [p \in DOMAIN old.Board_Enemy |-> 0], !.bonus = <<>>]

\* build_board(): the three matrices and the fresh generation of bonus records
build_board(old, hcells, hcit, hround, n, m) ==
    LET zero == ClearBoard(old)
        st == ScanFrom(zero, 1, ScanOrder(n, m), hcells, hcit)
        w == [Board |-> st.Board, Board_Enemy |-> st.Board_Enemy,
              Board_Barricades |-> st.Board_Barricades,
              cells |-> hcells, citizens |-> hcit, round |-> hround]
    IN  [st EXCEPT !.bonus = [p \in DOMAIN st.bonus |-> compute_closest(p, st.bonus[p], w)]]

(***************************************************************************)
(* APPROACH TARGET and its auxiliary functions.                            *)
(***************************************************************************)

is_day(w) == is_round_day(w.round)

is_night(w) == ~is_round_day(w.round)

\* is_stronger(cit, i, j)
is_stronger(w, cit, p) ==
    LET weapon == my_weapon(cit) IN
    IF weapon = -board(w, p) THEN cit.life > w.citizens[w.cells[p].id].life
    ELSE weapon > -board(w, p)

\* has_buildable_barricade(pos)
has_buildable_barricade(w, pos) ==
    /\ pos_ok(pos)
    /\ board_barricades(w, pos) > 0
    /\ board(w, pos) # FRIENDLY_CITIZEN
    /\ board_barricades(w, pos) < (BarricadeMaxResistance * PERCENT_BUILD) \div 100

\* is_danger(pos, my_weapon)
is_danger(w, pos, weapon) ==
    IF is_day(w) /\ is_round_day(w.round + 1) THEN FALSE
    ELSE -board_enemy(w, pos) > weapon

\* no_brainer(i, j, my_weapon, is_warrior): the result and my_weapon as it leaves it
no_brainer(w, p, weapon, is_warrior) ==
    IF /\ board(w, p) <= ENEMY_BUILDER
       /\ -board(w, p) <= weapon
       /\ is_night(w)
       /\ board_enemy(w, p) <= LifeLostInAttack
       /\ board_barricades(w, p) = 0
    THEN [ret |-> TRUE, my_weapon |-> weapon]
    ELSE IF is_warrior /\ board(w, p) > weapon
         THEN [ret |-> TRUE, my_weapon |-> board(w, p)]
         ELSE [ret |-> FALSE, my_weapon |-> weapon]

\* add_movement_penalties(pos, distance, weapon): distance as it leaves it
add_movement_penalties(w, pos, distance, weapon) ==
    LET d1 == IF board_barricades(w, pos) < 0
              THEN U16(distance + CDiv(-board_barricades(w, pos), strength_demolish(weapon)))
              ELSE distance
        d2 == IF board(w, pos) <= ENEMY_BUILDER
              THEN U16(d1 + (CDiv(board_enemy(w, pos), LifeLostInAttack) - 1))
              ELSE d1
    IN  IF board(w, pos) = FRIENDLY_CITIZEN THEN U16(d2 + COST_WALK_INTO_FRIENDLY) ELSE d2

\* map<Pos, Bonus_Info>::operator[]: the map after the access (a missing key is inserted)
MapAt(map, u) == IF u \in DOMAIN map THEN map ELSE (u :> Bonus_Info("U")) @@ map
\* the profit of a money cell when the closest citizen only has to have been
\* closer than the unit last round, not to have come closer since
MoneyProfit_AlreadyCloser(distance, closest_dist, prev_dist) ==
    LET profit == MONEY_PROFIT - distance IN
    IF profit > 0 /\ closest_dist < distance /\ prev_dist < distance THEN 0 ELSE profit

\* the profit of a money cell (lines 510-518)
MoneyProfit(distance, closest_dist, prev_dist) ==
    LET profit == MONEY_PROFIT - distance IN
    IF profit > 0 /\ closest_dist < distance /\ closest_dist < prev_dist THEN 0 ELSE profit

\* a cell is safe if none of its neighbours is dangerous (lines 454-457)
SafeAround(w, new_p, WEAPON) ==
    \A k \in 1 .. 4 : ~(pos_ok(Step(new_p, Directions[k]))
                        /\ is_danger(w, Step(new_p, Directions[k]), WEAPON))
\* the entry test that lets an initial direction hold any enemy, whatever its tier
CanEnter_AnyEnemy(w, new_p, WEAPON) ==
    board(w, new_p) # WALL /\ ~is_danger(w, new_p, WEAPON)

\* the test of a first step without the danger rule
CanEnter_NoDanger(w, new_p, WEAPON) ==
    board(w, new_p) # WALL /\ -board(w, new_p) < WEAPON

\* the condition under which a neighbour of the origin is enqueued (lines 460, 475)
CanEnter(w, new_p, WEAPON) ==
    board(w, new_p) # WALL /\ ~is_danger(w, new_p, WEAPON) /\ -board(w, new_p) < WEAPON

\* the result record of approach_target
Outcome(ret, instr, cur, prev, path, s) ==
    [ret |-> ret, instr |-> instr, cur |-> cur, prev |-> prev, path |-> path,
     log |-> s.log, seeds |-> s.seeds, pushed |-> s.pushed, order |-> s.order,
     dist |-> s.dist, best_pos |-> s.best_pos, best_kind |-> s.best_kind,
     best_profit |-> s.best_profit, take_ownership |-> s.take_ownership]

RECURSIVE FirstLoop(_, _, _)
\* the first loop over the neighbours (lines 441-467); x is the call's context
FirstLoop(s, k, x) ==
    IF k > 4 THEN s
    ELSE LET d == Directions[k]
             new_p == Step(x.origin, d)
         IN  IF ~pos_ok(new_p) THEN FirstLoop(s, k + 1, x)
             ELSE LET nb == no_brainer(x.w, new_p, x.WEAPON, x.is_warrior) IN
                  IF nb.ret
                  THEN IF nb.my_weapon < -board_enemy(x.w, new_p)
                       THEN [s EXCEPT !.returned = TRUE, !.ret = FALSE, !.path = "wait"]
                       ELSE [s EXCEPT !.returned = TRUE, !.ret = TRUE, !.path = "fast",
                                      !.instr = <<[priority |-> VERY_HIGH_PRIORITY,
                                                   is_build |-> FALSE, id |-> x.ID,
                                                   dir |-> d]>>]
                  ELSE IF SafeAround(x.w, new_p, x.WEAPON) /\ CanEnter(x.w, new_p, x.WEAPON)
                       THEN LET distance == add_movement_penalties(x.w, new_p, 1, x.WEAPON)
                            IN  FirstLoop([s EXCEPT !.dist[new_p] = distance,
                                                    !.Q = HeapPush(s.Q, [dist |-> distance,
                                                                         pos |-> new_p,
                                                                         dir |-> d]),
                                                    !.seeds = s.seeds \cup
                                                        {[pos |-> new_p, dir |-> d,
                                                          stage |-> 1]}],
                                          k + 1, x)
                       ELSE FirstLoop(s, k + 1, x)

RECURSIVE SecondLoop(_, _, _)
\* the fallback loop over the neighbours (lines 470-482)
SecondLoop(s, k, x) ==
    IF k > 4 THEN s
    ELSE LET d == Directions[k]
             new_p == Step(x.origin, d)
         IN  IF pos_ok(new_p) /\ CanEnter(x.w, new_p, x.WEAPON)
             THEN LET distance == add_movement_penalties(x.w, new_p, 1, x.WEAPON)
                  IN  SecondLoop([s EXCEPT !.dist[new_p] = distance,
                                           !.Q = HeapPush(s.Q, [dist |-> distance,
                                                                pos |-> new_p,
                                                                dir |-> d]),
                                           !.seeds = s.seeds \cup
                                               {[pos |-> new_p, dir |-> d, stage |-> 2]}],
                                 k + 1, x)
             ELSE SecondLoop(s, k + 1, x)

RECURSIVE Expand(_, _, _, _, _)
\* the expansion from a dequeued cell u reached through dir (lines 568-581)
Expand(s, u, dir, k, x) ==
    IF k > 4 THEN s
    ELSE LET new_p == Step(u, Directions[k]) IN
         IF pos_ok(new_p) /\ board(x.w, new_p) # WALL
         THEN LET new_distance ==
                      add_movement_penalties(x.w, new_p, U16(s.dist[u] + 1), x.WEAPON)
              IN  IF new_distance < s.dist[new_p]
                  THEN Expand([s EXCEPT !.dist[new_p] = new_distance,
                                        !.Q = HeapPush(s.Q, [dist |-> new_distance,
                                                             pos |-> new_p,
                                                             dir |-> dir]),
                                        !.pushed = s.pushed \cup {new_p}],
                              u, dir, k + 1, x)
                  ELSE Expand(s, u, dir, k + 1, x)
         ELSE Expand(s, u, dir, k + 1, x)

\* a candidate target: keep it if its profit beats the best so far
Candidate(s, u, dir, kind, profit, distance, own) ==
    LET s1 == [s EXCEPT !.log = Append(s.log, [pos |-> u, kind |-> kind,
                                                profit |-> profit, dist |-> distance])]
    IN  IF profit > s.best_profit
        THEN [s1 EXCEPT !.best_profit = profit, !.best_dir = dir, !.best_pos = u,
                        !.best_kind = kind,
                        !.take_ownership = IF own THEN u ELSE "null",
                        !.take_ownership_dist = IF own THEN distance
                                                ELSE s.take_ownership_dist]
        ELSE s1

\* the evaluation of a dequeued cell u (lines 494-565); go says whether to expand
Evaluate(s, u, dir, x) ==
    LET distance == s.dist[u]
        w == x.w
    IN  IF /\ x.is_warrior
           /\ board(w, u) <= ENEMY_BUILDER
           /\ is_stronger(w, x.c, u)
           /\ is_round_night(w.round + s.dist[u])
        THEN LET profit == (ATTACK_PROFIT - distance)
                           + (IF board(w, u) < ENEMY_BUILDER THEN WARRIOR_EXTRA_PROFIT ELSE 0)
             IN  [Candidate(s, u, dir, "attack", profit, distance, FALSE) EXCEPT !.go = FALSE]
        ELSE IF board(w, u) = MONEY
        THEN LET cur1 == MapAt(s.cur, u)
                 closest_dist == cur1[u].closest_dist
                 reads == (MONEY_PROFIT - distance > 0) /\ closest_dist < distance
                 prev1 == IF reads THEN MapAt(s.prev, u) ELSE s.prev
                 prev_dist == IF reads THEN prev1[u].closest_dist ELSE 0
                 profit == MoneyProfit(distance, closest_dist, prev_dist)
             IN  Candidate([s EXCEPT !.cur = cur1, !.prev = prev1],
                           u, dir, "money", profit, distance, FALSE)
        ELSE IF x.NEED_HEAL /\ board(w, u) = FOOD
        THEN LET profit == (HEALTH_PROFIT - distance)
                           + (IF LifeLostInAttack >= x.c.life THEN ABOUT_TO_DIE_BONUS ELSE 0)
             IN  Candidate(s, u, dir, "food", profit, distance, FALSE)
        ELSE IF board(w, u) >= GUN /\ MapAt(s.cur, u)[u].closest_dist >= distance
        THEN LET cur1 == MapAt(s.cur, u)
                 s1 == [s EXCEPT !.cur = cur1]
             IN  IF x.is_warrior /\ board(w, u) > x.WEAPON
                 THEN Candidate(s1, u, dir, "weapon",
                                (WEAPON_PROFIT - distance)
                                + (IF board(w, u) = BAZOOKA THEN BAZOOKA_EXTRA_PROFIT * 2
                                   ELSE 0),
                                distance, FALSE)
                 ELSE IF cur1[u].closest_is_friendly
                 THEN [s1 EXCEPT !.dist[u] = U16(s.dist[u] + 4)]
                 ELSE Candidate(s1, u, dir, "steal",
                                (STEAL_WEAPON_PROFIT - distance)
                                + (IF board(w, u) = BAZOOKA THEN BAZOOKA_EXTRA_PROFIT ELSE 0),
                                distance, TRUE)
        ELSE IF board(w, u) >= GUN THEN [s EXCEPT !.cur = MapAt(s.cur, u)]
        ELSE s

RECURSIVE SearchLoop(_, _)
\* the dequeue loop (lines 486-582)
SearchLoop(s, x) ==
    IF s.Q = <<>> THEN s
    ELSE LET u == HeapTop(s.Q).pos
             dir == HeapTop(s.Q).dir
             Q1 == HeapPop(s.Q)
         IN  IF AlreadyVisited(s.visited, u) THEN SearchLoop([s EXCEPT !.Q = Q1], x)
             ELSE LET s1 == [s EXCEPT !.Q = Q1, !.visited[u] = TRUE, !.go = TRUE,
                                      !.order = Append(s.order, u)]
                      s2 == Evaluate(s1, u, dir, x)
                  IN  IF s2.go THEN SearchLoop(Expand(s2, u, dir, 1, x), x)
                      ELSE SearchLoop(s2, x)
\* the records left as they are, whatever take_ownership points to
TakeOwnership_NoMark(cur, take_ownership, take_ownership_dist) == cur

\* the write through take_ownership (lines 623-626)
TakeOwnership(cur, take_ownership, take_ownership_dist) ==
    IF take_ownership # "null"
    THEN [cur EXCEPT ![take_ownership].closest_is_friendly = TRUE,
                     ![take_ownership].closest_dist = take_ownership_dist]
    ELSE cur

\* the priority of the move with no higher value for a unit one hit from dying
MovePriority_NoDeathRank(w, origin, dest, WEAPON, c, best_profit) ==
    IF is_danger(w, origin, WEAPON) THEN RUN_PRIORITY
    ELSE IF board_enemy(w, dest) = 0 THEN NOT_IMPORTANT ELSE best_profit

\* the priority of the move approach_target inserts (lines 612-621)
MovePriority(w, origin, dest, WEAPON, c, best_profit) ==
    IF is_danger(w, origin, WEAPON)
    THEN IF LifeLostInAttack >= c.life THEN RUN_DEATH_PRIORITY ELSE RUN_PRIORITY
    ELSE IF board_enemy(w, dest) = 0 THEN NOT_IMPORTANT ELSE best_profit

\* the decision after the search (lines 586-629)
Decide(s, x, nb) ==
    LET w == x.w
        origin == x.origin
        can_build == is_day(w) /\ ~x.is_warrior /\ board_barricades(w, origin) = 0
        t0 == IF can_build /\ nb < MaxNumBarricades THEN BARRICADE_THRESHOLD ELSE INT_MIN
        barricade_threshold ==
            IF can_build /\ \E k \in 1 .. 4 :
                                has_buildable_barricade(w, Step(origin, Directions[k]))
            THEN BARRICADE_INTERRUPT_THRESHOLD ELSE t0
        dest == Step(origin, s.best_dir)
        priority == MovePriority(w, origin, dest, x.WEAPON, x.c, s.best_profit)
        cur1 == TakeOwnership(s.cur, s.take_ownership, s.take_ownership_dist)
    IN  IF s.best_profit = INT_MIN THEN Outcome(FALSE, <<>>, s.cur, s.prev, "none", s)
        ELSE IF s.best_profit <= barricade_threshold
        THEN Outcome(FALSE, <<>>, s.cur, s.prev, "threshold", s)
        ELSE IF is_danger(w, origin, x.WEAPON) /\ s.dist[dest] > 1
        THEN Outcome(FALSE, <<>>, s.cur, s.prev, "abort", s)
        ELSE Outcome(TRUE,
                     <<[priority |-> priority, is_build |-> FALSE, id |-> x.ID,
                        dir |-> s.best_dir]>>,
                     cur1, s.prev, "search", s)
\* NEED_HEAL with <= in place of <
NEED_HEAL_AtBaseline(c, is_warrior) ==
    IF is_warrior THEN c.life <= WarriorIniLife ELSE c.life <= BuilderIniLife

\* NEED_HEAL (lines 430-432)
NEED_HEAL(c, is_warrior) ==
    IF is_warrior THEN c.life < WarriorIniLife ELSE c.life < BuilderIniLife
\* the fallback loop run whether or not the first loop enqueued a direction
Fallback_Always(s1, x) == SecondLoop(s1, 1, x)

\* the less safe directions, tried if the first loop enqueued none (lines 469-483)
Fallback(s1, x) == IF s1.Q = <<>> THEN SecondLoop(s1, 1, x) ELSE s1

\* approach_target(ID, is_warrior), called with the current and previous generation
\* of bonus records and the structure counter nb
approach_target(w, ID, is_warrior, cur, prev, nb) ==
    LET c == w.citizens[ID]
        origin == c.pos
        x == [w |-> w, ID |-> ID, is_warrior |-> is_warrior, c |-> c, origin |-> origin,
              WEAPON |-> my_weapon(c),
              NEED_HEAL |-> NEED_HEAL(c, is_warrior)]
        s0 == [dist |-> [[p \in DOMAIN w.Board |-> USHRT_MAX] EXCEPT ![origin] = 0],
               visited |-> [[p \in DOMAIN w.Board |-> FALSE] EXCEPT ![origin] = TRUE],
               Q |-> <<>>, best_dir |-> "Left", best_profit |-> INT_MIN,
               best_pos |-> "null", best_kind |-> "null",
               take_ownership |-> "null", take_ownership_dist |-> 0,
               cur |-> cur, prev |-> prev,
               log |-> <<>>, seeds |-> {}, pushed |-> {}, order |-> <<>>, go |-> TRUE,
               returned |-> FALSE, ret |-> FALSE, path |-> "", instr |-> <<>>]
        s1 == FirstLoop(s0, 1, x)
    IN  IF s1.returned THEN Outcome(s1.ret, s1.instr, cur, prev, s1.path, s1)
        ELSE Decide(SearchLoop(Fallback(s1, x), x), x, nb)

(***************************************************************************)
(* MAIN FUNCTIONS: the task of each citizen.  A task returns the           *)
(* instructions it pushes, the two generations of bonus records and the    *)
(* structure counter as it leaves them, and the planner's outcome.         *)
(***************************************************************************)

\* the first direction, in the order of Directions, that satisfies P, or "None"
FirstDir(P(_)) ==
    IF P("Up") THEN "Up"
    ELSE IF P("Down") THEN "Down"
    ELSE IF P("Left") THEN "Left"
    ELSE IF P("Right") THEN "Right"
    ELSE "None"

\* _move(priority, id, where): the instruction pushed
_move(priority, id, where) ==
    [priority |-> priority, is_build |-> FALSE, id |-> id, dir |-> where]

\* _build(priority, id, where): the instruction pushed
_build(priority, id, where) ==
    [priority |-> priority, is_build |-> TRUE, id |-> id, dir |-> where]

\* what a task leaves: the planner's pushes followed by its own
TaskResult(at, instr, nb, via) ==
    [at |-> at, instr |-> at.instr \o instr, cur |-> at.cur, prev |-> at.prev,
     nb |-> nb, via |-> via]
\* a new barricade without ++num_barricades
NewBarricade_NotCounted(at, id, d, nb, via) ==
    TaskResult(at, <<_build(BUILD_PRIORITY, id, d)>>, nb, via)

\* the body of the two loops that place a new barricade (lines 657-659, 665-667)
NewBarricade(at, id, d, nb, via) ==
    TaskResult(at, <<_build(BUILD_PRIORITY, id, d)>>, nb + 1, via)
\* builder_day_task with a quota test that lets one more barricade through
builder_day_task_OverQuota(w, id, cur, prev, nb) ==
    LET at == approach_target(w, id, FALSE, cur, prev, nb)
        pos == w.citizens[id].pos
        improve == FirstDir(LAMBDA d : has_buildable_barricade(w, Step(pos, d)))
        fresh == FirstDir(LAMBDA d : /\ pos_ok(Step(pos, d))
                                     /\ board(w, Step(pos, d)) = EMPTY
                                     /\ board_enemy(w, Step(pos, d)) = 0
                                     /\ board_barricades(w, Step(pos, d)) = 0)
        any == FirstDir(LAMBDA d : /\ pos_ok(Step(pos, d))
                                   /\ board(w, Step(pos, d)) = EMPTY
                                   /\ board_barricades(w, Step(pos, d)) = 0)
    IN  IF at.ret THEN TaskResult(at, <<>>, nb, "move")
        ELSE IF improve # "None"
        THEN TaskResult(at, <<_build(BUILD_PRIORITY, id, improve)>>, nb, "improve")
        ELSE IF nb > MaxNumBarricades THEN TaskResult(at, <<>>, nb, "quota")
        ELSE IF fresh # "None"
        THEN NewBarricade(at, id, fresh, nb, "build")
        ELSE IF any # "None"
        THEN NewBarricade(at, id, any, nb, "build_any")
        ELSE TaskResult(at, <<>>, nb, "none")

\* builder_day_task(id)
builder_day_task(w, id, cur, prev, nb) ==
    LET at == approach_target(w, id, FALSE, cur, prev, nb)
        pos == w.citizens[id].pos
        improve == FirstDir(LAMBDA d : has_buildable_barricade(w, Step(pos, d)))
        fresh == FirstDir(LAMBDA d : /\ pos_ok(Step(pos, d))
                                     /\ board(w, Step(pos, d)) = EMPTY
                                     /\ board_enemy(w, Step(pos, d)) = 0
                                     /\ board_barricades(w, Step(pos, d)) = 0)
        any == FirstDir(LAMBDA d : /\ pos_ok(Step(pos, d))
                                   /\ board(w, Step(pos, d)) = EMPTY
                                   /\ board_barricades(w, Step(pos, d)) = 0)
    IN  IF at.ret THEN TaskResult(at, <<>>, nb, "move")
        ELSE IF improve # "None"
        THEN TaskResult(at, <<_build(BUILD_PRIORITY, id, improve)>>, nb, "improve")
        ELSE IF nb >= MaxNumBarricades THEN TaskResult(at, <<>>, nb, "quota")
        ELSE IF fresh # "None"
        THEN NewBarricade(at, id, fresh, nb, "build")
        ELSE IF any # "None"
        THEN NewBarricade(at, id, any, nb, "build_any")
        ELSE TaskResult(at, <<>>, nb, "none")

\* warrior_day_task(id)
warrior_day_task(w, id, cur, prev, nb) ==
    LET at == approach_target(w, id, TRUE, cur, prev, nb)
    IN  TaskResult(at, <<>>, nb, IF at.ret THEN "move" ELSE "none")

\* is_escape_route(pos, my_weapon)
is_escape_route(w, pos, weapon) ==
    pos_ok(pos) /\ board(w, pos) # WALL /\ -board_enemy(w, pos) <= weapon

RECURSIVE BestEscape(_, _, _, _, _)
\* the loop that looks for the best place to run (lines 711-716, 748-753)
BestEscape(w, pos, weapon, k, best) ==
    IF k > 4 THEN best
    ELSE LET d == Directions[k] IN
         IF is_escape_route(w, Step(pos, d), weapon)
            /\ board(w, Step(pos, d)) > best.best_outcome
         THEN BestEscape(w, pos, weapon, k + 1,
                         [best_outcome |-> board(w, Step(pos, d)), dir |-> d])
         ELSE BestEscape(w, pos, weapon, k + 1, best)

\* the retreat shared by the two night tasks; none is the sentinel of best_outcome
Retreat(w, id, at, weapon, none, nb) ==
    LET c == w.citizens[id]
        pos == c.pos
        priority == IF LifeLostInAttack >= c.life THEN RUN_DEATH_PRIORITY
                    ELSE RUN_PRIORITY
        cover == FirstDir(LAMBDA d : pos_ok(Step(pos, d))
                                     /\ board_barricades(w, Step(pos, d)) > 0)
        best == BestEscape(w, pos, weapon, 1, [best_outcome |-> none, dir |-> "None"])
    IN  IF at.ret THEN TaskResult(at, <<>>, nb, "move")
        ELSE IF ~(-board_enemy(w, pos) > weapon) THEN TaskResult(at, <<>>, nb, "none")
        ELSE IF cover # "None"
        THEN TaskResult(at, <<_move(priority, id, cover)>>, nb, "cover")
        ELSE IF best.best_outcome # none
        THEN TaskResult(at, <<_move(priority, id, best.dir)>>, nb, "escape")
        ELSE TaskResult(at, <<>>, nb, "fate")
\* builder_night_task without the return that follows a successful approach_target
builder_night_task_NoReturn(w, id, cur, prev, nb) ==
    Retreat(w, id, [approach_target(w, id, FALSE, cur, prev, nb) EXCEPT !.ret = FALSE],
            BUILDER, -1, nb)

\* builder_night_task(id)
builder_night_task(w, id, cur, prev, nb) ==
    Retreat(w, id, approach_target(w, id, FALSE, cur, prev, nb), BUILDER, -1, nb)

\* warrior_night_task(id)
warrior_night_task(w, id, cur, prev, nb) ==
    Retreat(w, id, approach_target(w, id, TRUE, cur, prev, nb),
            my_weapon(w.citizens[id]), INT_MIN, nb)

(***************************************************************************)
(* The host: the boards the player is shown.                               *)
(***************************************************************************)

\* descriptors of one cell of a layout: what lies or stands there, and the
\* barricade on it (res = -1: none)
Free == [k |-> "empty", res |-> -1, owner |-> -1]
Building == [k |-> "wall", res |-> -1, owner |-> -1]
Food == [k |-> "food", res |-> -1, owner |-> -1]
Money == [k |-> "money", res |-> -1, owner |-> -1]
GunCell == [k |-> "gun", res |-> -1, owner |-> -1]
BazookaCell == [k |-> "bazooka", res |-> -1, owner |-> -1]
Barricade(owner, res) == [k |-> "empty", res |-> res, owner |-> owner]
Cit(player, type, weapon, life) ==
    [k |-> "cit", res |-> -1, owner |-> -1,
     player |-> player, type |-> type, weapon |-> weapon, life |-> life]
CitIn(player, type, weapon, life, res) ==
    [k |-> "cit", res |-> res, owner |-> player,
     player |-> player, type |-> type, weapon |-> weapon, life |-> life]

\* the identifier of the citizen that starts on p
IdAt(p) == p[1] * Cols + p[2]

\* cell(p) of a layout f
HostCell(f, p) ==
    [type |-> IF f[p].k = "wall" THEN "Building" ELSE "Street",
     bonus |-> IF f[p].k = "food" THEN "Food"
               ELSE IF f[p].k = "money" THEN "Money" ELSE "None",
     weapon |-> IF f[p].k = "gun" THEN "Gun"
                ELSE IF f[p].k = "bazooka" THEN "Bazooka" ELSE "NoWeapon",
     id |-> IF f[p].k = "cit" THEN IdAt(p) ELSE -1,
     resistance |-> f[p].res,
     b_owner |-> f[p].owner]

HostCells(f) == [p \in Pos |-> HostCell(f, p)]

HostCitizens(f) ==
    [id \in {IdAt(p) : p \in {q \in Pos : f[q].k = "cit"}} |->
        LET p == CHOOSE q \in Pos : IdAt(q) = id
        IN  [type |-> f[p].type, weapon |-> f[p].weapon, life |-> f[p].life,
             player |-> f[p].player, pos |-> p]]

\* a layout: everything free except what g places
Place(g) == [p \in Pos |-> IF p \in DOMAIN g THEN g[p] ELSE Free]

\* the citizens the layouts are made of
MyWarrior(weapon, life) == Cit(me, "Warrior", weapon, life)
MyBuilder(life) == Cit(me, "Builder", "NoWeapon", life)
Enemy(weapon, life) == Cit(1, "Warrior", weapon, life)
EnemyBuilder(life) == Cit(1, "Builder", "NoWeapon", life)

\* a warrior next to weapons and to armed enemies
LayoutsFast ==
    {Place((<<1, 0>> :> MyWarrior(wp, WarriorIniLife)) @@ (<<0, 0>> :> xa)
           @@ (<<2, 0>> :> xe) @@ (<<0, 1>> :> xb) @@ (<<2, 1>> :> xf)) :
        wp \in {"Hammer", "Gun"},
        xa \in {Free, GunCell, BazookaCell},
        xe \in {Free, GunCell, Building},
        xb \in {Free, Enemy("Gun", WarriorIniLife), Enemy("Bazooka", WarriorIniLife)},
        xf \in {Free, Enemy("Bazooka", WarriorIniLife), Enemy("Hammer", LifeLostInAttack)}}

\* a citizen with an enemy at its side, between walls or next to cover
LayoutsRetreat ==
    {Place((<<1, 0>> :> mine) @@ (<<0, 0>> :> xa) @@ (<<2, 0>> :> xe)
           @@ (<<1, 1>> :> xd) @@ (<<2, 1>> :> xf)) :
        mine \in {MyWarrior("Hammer", WarriorIniLife),
                  MyWarrior("Hammer", LifeLostInAttack),
                  MyBuilder(BuilderIniLife), MyBuilder(LifeLostInAttack)},
        xa \in {Free, Building, Barricade(me, 2)},
        xe \in {Free, Building, Money},
        xd \in {Enemy("Bazooka", WarriorIniLife), Enemy("Hammer", LifeLostInAttack),
                EnemyBuilder(1)},
        xf \in {Free, Enemy("Bazooka", WarriorIniLife)}}

\* citizens at some distance from a money cell, a builder of another player about
LayoutsMoney ==
    {Place((<<0, 0>> :> Money) @@ (<<2, 0>> :> mine) @@ (<<1, 0>> :> xc)
           @@ (<<2, 1>> :> xf) @@ (q :> EnemyBuilder(BuilderIniLife))) :
        mine \in {MyWarrior("Hammer", WarriorIniLife), MyBuilder(BuilderIniLife)},
        xc \in {Free, Food, Barricade(1, 2)},
        xf \in {Free, MyWarrior("Hammer", WarriorIniLife), MyBuilder(BuilderIniLife)},
        q \in {<<0, 1>>, <<1, 1>>}}

\* builders among barricades and free cells
LayoutsBuild ==
    {Place((<<1, 0>> :> mine) @@ (<<0, 0>> :> xa) @@ (<<2, 0>> :> xe)
           @@ (<<1, 1>> :> xd) @@ (<<0, 1>> :> xb)) :
        mine \in {MyBuilder(BuilderIniLife), CitIn(me, "Builder", "NoWeapon", BuilderIniLife, 3)},
        xa \in {Free, Barricade(me, 1), Barricade(me, 3), Money},
        xe \in {Free, Building, Barricade(me, 3)},
        xd \in {Free, MyBuilder(BuilderIniLife)},
        xb \in {Free, Enemy("Hammer", WarriorIniLife)}}

\* two enemies anywhere around a warrior
LayoutsHalo ==
    {Place((<<1, 0>> :> MyWarrior("Hammer", WarriorIniLife)) @@ (q1 :> e1) @@ (q2 :> e2)) :
        q1 \in {<<0, 0>>, <<0, 1>>, <<1, 1>>},
        q2 \in {<<1, 1>>, <<2, 1>>, <<2, 0>>},
        e1 \in {EnemyBuilder(1), Enemy("Gun", WarriorIniLife)},
        e2 \in {Enemy("Hammer", 1), Enemy("Bazooka", WarriorIniLife), Money}}

\* healthy and wounded citizens near food and other bonuses
LayoutsFood ==
    {Place((<<1, 0>> :> mine) @@ (q :> Food) @@ (<<2, 0>> :> xe) @@ (<<2, 1>> :> xf)) :
        mine \in {MyWarrior("Hammer", WarriorIniLife),
                  MyWarrior("Gun", LifeLostInAttack),
                  MyBuilder(BuilderIniLife), MyBuilder(LifeLostInAttack)},
        q \in {<<0, 0>>, <<0, 1>>, <<1, 1>>},
        xe \in {Free, Money, Building},
        xf \in {Free, Money, BazookaCell}}

\* three citizens that all act in the same round
LayoutsFlush ==
    {Place((<<0, 0>> :> MyBuilder(BuilderIniLife)) @@ (<<1, 0>> :> xc)
           @@ (<<1, 1>> :> MyWarrior("Hammer", WarriorIniLife)) @@ (<<2, 1>> :> xf)) :
        xc \in {MyBuilder(BuilderIniLife), MyWarrior("Hammer", LifeLostInAttack)},
        xf \in {GunCell, Money, Food}}

\* a money cell at the end of a corridor closed by a barricade
LayoutsCorridor ==
    {Place((<<0, 0>> :> Money) @@ (<<0, 1>> :> Building) @@ (<<1, 1>> :> xd)
           @@ (<<1, 0>> :> Barricade(owner, res)) @@ (<<2, 0>> :> mine) @@ (<<2, 1>> :> xf)) :
        xd \in {Building, Free},
        owner \in {me, 1},
        res \in {2, BarricadeMaxResistance},
        mine \in {MyWarrior("Hammer", WarriorIniLife), MyBuilder(BuilderIniLife)},
        xf \in {Free, EnemyBuilder(BuilderIniLife)}}

\* a wounded builder next to an enemy, and another of my units further away
LayoutsEscape ==
    {Place((<<2, 0>> :> MyBuilder(LifeLostInAttack)) @@ (<<2, 1>> :> xf)
           @@ (<<0, 0>> :> xa) @@ (<<0, 1>> :> other)) :
        xf \in {Enemy("Hammer", 1), Enemy("Hammer", WarriorIniLife),
                Enemy("Bazooka", WarriorIniLife)},
        xa \in {Money, Food},
        other \in {MyWarrior("Gun", WarriorIniLife), MyWarrior("Hammer", WarriorIniLife),
                   MyBuilder(BuilderIniLife)}}
\* two of my units as close to a weapon as a hammer warrior of another player
LayoutsSteal ==
    {Place((<<1, 0>> :> wp) @@ (<<0, 0>> :> MyBuilder(BuilderIniLife)) @@ (<<2, 0>> :> xe)
           @@ (q :> Enemy("Hammer", WarriorIniLife))) :
        wp \in {GunCell, BazookaCell},
        xe \in {MyBuilder(BuilderIniLife), MyWarrior("Gun", WarriorIniLife),
                MyWarrior("Bazooka", WarriorIniLife), Free},
        q \in {<<0, 1>>, <<1, 1>>, <<2, 1>>}}
\* a pickup at the end of a corridor, a citizen in the corridor and a hammer
\* warrior behind it
LayoutsQueue ==
    {Place((<<0, 0>> :> pickup) @@ (<<0, 1>> :> Building) @@ (<<1, 0>> :> first)
           @@ (<<1, 1>> :> xd) @@ (<<2, 0>> :> behind)) :
        pickup \in {GunCell, BazookaCell, Money},
        first \in {MyBuilder(BuilderIniLife), MyWarrior("Gun", WarriorIniLife),
                   Enemy("Gun", WarriorIniLife), EnemyBuilder(BuilderIniLife)},
        xd \in {Building, Free},
        behind \in {MyWarrior("Hammer", WarriorIniLife), Enemy("Hammer", WarriorIniLife)}}
\* a bazooka next to a builder of mine with a warrior of mine on its other side,
\* a second pickup beside it and an enemy builder in the far corner
LayoutsTwoPickups ==
    {Place((<<0, 0>> :> MyBuilder(BuilderIniLife)) @@ (<<1, 0>> :> BazookaCell)
           @@ (<<1, 1>> :> second) @@ (<<2, 0>> :> MyWarrior(held, WarriorIniLife))
           @@ (<<2, 1>> :> EnemyBuilder(life))) :
        second \in {GunCell, Free},
        held \in {"Gun", "Bazooka"},
        life \in {1, BuilderIniLife}}

Layouts ==
    LayoutsFast \cup LayoutsRetreat \cup LayoutsMoney \cup LayoutsBuild
    \cup LayoutsHalo \cup LayoutsFood \cup LayoutsFlush \cup LayoutsCorridor
    \cup LayoutsEscape \cup LayoutsSteal \cup LayoutsQueue \cup LayoutsTwoPickups

(***************************************************************************)
(* The state machine.                                                      *)
(***************************************************************************)

World ==
    [Board |-> Board, Board_Enemy |-> Board_Enemy, Board_Barricades |-> Board_Barricades,
     cells |-> cells, citizens |-> citizens, round |-> round]

Cur == IF bonus_distances = "odd" THEN bonus_distances_odd ELSE bonus_distances_even

Prev == IF bonus_distances_prev = "odd" THEN bonus_distances_odd ELSE bonus_distances_even

RECURSIVE Ascending(_)
\* the identifiers of a set in ascending order
Ascending(S) ==
    IF S = {} THEN <<>>
    ELSE LET x == CHOOSE y \in S : \A z \in S : y <= z
         IN  <<x>> \o Ascending(S \ {x})

\* builders(me()) and warriors(me())
builders(hcit) == Ascending({id \in DOMAIN hcit : hcit[id].player = me
                                                  /\ hcit[id].type = "Builder"})
warriors(hcit) == Ascending({id \in DOMAIN hcit : hcit[id].player = me
                                                  /\ hcit[id].type = "Warrior"})

\* barricades(me()).size()
barricades(hcells) == Cardinality({p \in Pos : hcells[p].resistance # -1
                                               /\ hcells[p].b_owner = me})

NoPlan == [id |-> -1, task |-> "none"]
\* the current generation when the parity of the round is not looked at
CurrentGeneration_AlwaysEven(r) == "even"

\* the map bonus_distances points to in round r (lines 765, 766, 770)
CurrentGeneration(r) == IF r % 2 = 1 THEN "odd" ELSE "even"

\* the map bonus_distances_prev points to in round r (lines 765, 767, 771)
PreviousGeneration(r) == IF r % 2 = 1 THEN "even" ELSE "odd"

\* play(), lines 763-778: initialize, swap the generations, build the board
PlayBegin ==
    /\ pc = "play"
    /\ LET n == IF sz_n = 0 THEN Rows ELSE sz_n
           m == IF sz_n = 0 THEN Cols ELSE sz_m
           old == IF sz_n = 0
                  THEN [Board |-> initialize(n, m), Board_Enemy |-> initialize(n, m),
                        Board_Barricades |-> initialize(n, m), bonus |-> <<>>]
                  ELSE [Board |-> Board, Board_Enemy |-> Board_Enemy,
                        Board_Barricades |-> Board_Barricades, bonus |-> <<>>]
           b == build_board(old, cells, citizens, round, n, m)
       IN  /\ sz_n' = n
           /\ sz_m' = m
           /\ Board' = b.Board
           /\ Board_Enemy' = b.Board_Enemy
           /\ Board_Barricades' = b.Board_Barricades
           /\ bonus_distances' = CurrentGeneration(round)
           /\ bonus_distances_prev' = PreviousGeneration(round)
           /\ bonus_distances_odd' = IF CurrentGeneration(round) = "odd"
                                     THEN b.bonus ELSE bonus_distances_odd
           /\ bonus_distances_even' = IF CurrentGeneration(round) = "even"
                                      THEN b.bonus ELSE bonus_distances_even
    /\ num_barricades' = barricades(cells)
    /\ todo' = builders(citizens) \o warriors(citizens)
    /\ pc' = "tasks"
    /\ plan' = NoPlan
    /\ UNCHANGED <<round, cells, citizens, instruction_buffer, inserted, sent>>

RECURSIVE PushAll(_, _)
\* instruction_buffer.push, once for each instruction of a task, in order
PushAll(h, instrs) ==
    IF instrs = <<>> THEN h ELSE PushAll(HeapPush(h, Head(instrs)), Tail(instrs))

\* the effect of one task on the player's state
Apply(r, id, task) ==
    /\ instruction_buffer' = PushAll(instruction_buffer, r.instr)
    /\ inserted' = inserted \o r.instr
    /\ bonus_distances_odd' = IF bonus_distances = "odd" THEN r.cur ELSE r.prev
    /\ bonus_distances_even' = IF bonus_distances = "odd" THEN r.prev ELSE r.cur
    /\ num_barricades' = r.nb
    /\ todo' = Tail(todo)
    /\ plan' = [id |-> id, task |-> task, at |-> [r.at EXCEPT !.cur = <<>>, !.prev = <<>>],
                instr |-> r.instr, via |-> r.via,
                cur0 |-> Cur, prev0 |-> Prev, nb0 |-> num_barricades]
    /\ UNCHANGED <<round, cells, citizens, sz_n, sz_m, Board, Board_Enemy,
                   Board_Barricades, bonus_distances, bonus_distances_prev, pc, sent>>

BuilderDay ==
    /\ pc = "tasks" /\ todo # <<>>
    /\ is_round_day(round) /\ citizens[Head(todo)].type = "Builder"
    /\ Apply(builder_day_task(World, Head(todo), Cur, Prev, num_barricades),
             Head(todo), "builder_day_task")

WarriorDay ==
    /\ pc = "tasks" /\ todo # <<>>
    /\ is_round_day(round) /\ citizens[Head(todo)].type = "Warrior"
    /\ Apply(warrior_day_task(World, Head(todo), Cur, Prev, num_barricades),
             Head(todo), "warrior_day_task")

BuilderNight ==
    /\ pc = "tasks" /\ todo # <<>>
    /\ ~is_round_day(round) /\ citizens[Head(todo)].type = "Builder"
    /\ Apply(builder_night_task(World, Head(todo), Cur, Prev, num_barricades),
             Head(todo), "builder_night_task")

WarriorNight ==
    /\ pc = "tasks" /\ todo # <<>>
    /\ ~is_round_day(round) /\ citizens[Head(todo)].type = "Warrior"
    /\ Apply(warrior_night_task(World, Head(todo), Cur, Prev, num_barricades),
             Head(todo), "warrior_night_task")
RECURSIVE FlushLoop_LeavesLast(_, _)
\* the loop that sends the commands, stopping one instruction short
FlushLoop_LeavesLast(h, out) ==
    IF Len(h) <= 1 THEN [buffer |-> h, sent |-> out]
    ELSE FlushLoop_LeavesLast(HeapPop(h), Append(out, HeapTop(h)))

RECURSIVE FlushLoop(_, _)
\* the loop that sends the commands (lines 789-794): what is left and what was sent
FlushLoop(h, out) ==
    IF h = <<>> THEN [buffer |-> h, sent |-> out]
    ELSE FlushLoop(HeapPop(h), Append(out, HeapTop(h)))

\* play(), lines 788-795
PlayFlush ==
    /\ pc = "tasks" /\ todo = <<>>
    /\ LET f == FlushLoop(instruction_buffer, <<>>)
       IN  /\ instruction_buffer' = f.buffer
           /\ sent' = f.sent
    /\ pc' = "host"
    /\ UNCHANGED <<round, cells, citizens, sz_n, sz_m, Board, Board_Enemy,
                   Board_Barricades, num_barricades, bonus_distances,
                   bonus_distances_prev, bonus_distances_odd, bonus_distances_even,
                   todo, inserted, plan>>

\* the boards the host may show next: nothing moves, or one builder of another
\* player steps onto a free street cell and takes what lies there
HostSteps(hcells, hcit) ==
    {[cells |-> hcells, citizens |-> hcit]} \cup
    {[cells |-> [hcells EXCEPT ![hcit[id].pos].id = -1,
                               ![Step(hcit[id].pos, d)].id = id,
                               ![Step(hcit[id].pos, d)].bonus = "None",
                               ![Step(hcit[id].pos, d)].weapon = "NoWeapon"],
      citizens |-> [hcit EXCEPT ![id].pos = Step(hcit[id].pos, d)]] :
        <<id, d>> \in {x \in (DOMAIN hcit) \X {"Up", "Down", "Left", "Right"} :
                          /\ hcit[x[1]].player # me
                          /\ hcit[x[1]].type = "Builder"
                          /\ Step(hcit[x[1]].pos, x[2]) \in Pos
                          /\ hcells[Step(hcit[x[1]].pos, x[2])].type = "Street"
                          /\ hcells[Step(hcit[x[1]].pos, x[2])].id = -1
                          /\ hcells[Step(hcit[x[1]].pos, x[2])].resistance = -1}}

\* the host ends the round and calls play() again
HostRound ==
    /\ pc = "host"
    /\ round < MaxRound
    /\ round' = round + 1
    /\ \E h \in HostSteps(cells, citizens) : cells' = h.cells /\ citizens' = h.citizens
    /\ pc' = "play"
    /\ inserted' = <<>>
    /\ sent' = <<>>
    /\ UNCHANGED <<sz_n, sz_m, Board, Board_Enemy, Board_Barricades, num_barricades,
                   instruction_buffer, bonus_distances, bonus_distances_prev,
                   bonus_distances_odd, bonus_distances_even, todo, plan>>

Next ==
    \/ PlayBegin
    \/ BuilderDay
    \/ WarriorDay
    \/ BuilderNight
    \/ WarriorNight
    \/ PlayFlush
    \/ HostRound

\* the player as constructed, shown the layout f at round 0
InitWith(f) ==
    /\ round = 0
    /\ cells = HostCells(f)
    /\ citizens = HostCitizens(f)
    /\ sz_n = 0
    /\ sz_m = 0
    /\ Board = <<>>
    /\ Board_Enemy = <<>>
    /\ Board_Barricades = <<>>
    /\ num_barricades = 0
    /\ instruction_buffer = <<>>
    /\ bonus_distances = "null"
    /\ bonus_distances_prev = "null"
    /\ bonus_distances_odd = <<>>
    /\ bonus_distances_even = <<>>
    /\ pc = "play"
    /\ todo = <<>>
    /\ inserted = <<>>
    /\ sent = <<>>
    /\ plan = NoPlan

Init == \E f \in Layouts : InitWith(f)

Spec == Init /\ [][Next]_vars

(***************************************************************************)
(* PROPERTIES.  The host's cells and citizens are the ground truth the     *)
(* properties are stated against; plan records the last task that ran.     *)
(***************************************************************************)

\* a task of this round has run and the host has not yet moved on
Planned == pc # "play" /\ plan.id # -1

\* play() has returned for this round
Returned == pc = "host"

\* the pairs of positions of the flush, earlier first
SentPairs == {x \in (1 .. Len(sent)) \X (1 .. Len(sent)) : x[1] < x[2]}

\* the insertions of the round, reordered by f
Reordered(f) == [i \in 1 .. Len(inserted) |-> inserted[f[i]]]

\* the flush of the same insertions made in every other order
FlushStable ==
    \A f \in Permutations(1 .. Len(inserted)) :
        FlushLoop(PushAll(<<>>, Reordered(f)), <<>>).sent = sent

\* C1 as stated: whatever was inserted in a round, and in whatever order, the
\* flush submits it by priority descending and, among equal priorities, by unit
\* id ascending.
C1_FlushByPriorityThenIdAscending ==
    Returned =>
        /\ \A x \in SentPairs :
              \/ sent[x[1]].priority > sent[x[2]].priority
              \/ /\ sent[x[1]].priority = sent[x[2]].priority
                 /\ sent[x[1]].id < sent[x[2]].id
        /\ FlushStable

\* C1 amended: whatever was inserted in a round, and in whatever order, the
\* flush submits it by priority descending and, among equal priorities, by unit
\* id descending.
C1_FlushByPriorityThenIdDescending ==
    Returned =>
        /\ \A x \in SentPairs :
              \/ sent[x[1]].priority > sent[x[2]].priority
              \/ /\ sent[x[1]].priority = sent[x[2]].priority
                 /\ sent[x[1]].id > sent[x[2]].id
        /\ FlushStable

\* a flush of two instructions of equal priority, and of two of different
\* priorities, that does not follow the order of insertion
C1_Witness ==
    /\ Returned
    /\ Len(sent) >= 3
    /\ sent # inserted
    /\ \E x \in SentPairs : sent[x[1]].priority = sent[x[2]].priority
    /\ \E x \in SentPairs : sent[x[1]].priority > sent[x[2]].priority

\* the units the player controls
MyUnits == {id \in DOMAIN citizens : citizens[id].player = me}

\* C2: in every round, day or night, at most one instruction carries the id of
\* any one unit the player controls, in the buffer and in what is submitted, and
\* no task inserts more than one.
C2_AtMostOneInstructionPerUnit ==
    /\ \A i, j \in 1 .. Len(inserted) : inserted[i].id = inserted[j].id => i = j
    /\ \A i \in 1 .. Len(inserted) : inserted[i].id \in MyUnits
    /\ \A i, j \in 1 .. Len(sent) : sent[i].id = sent[j].id => i = j
    /\ Len(instruction_buffer) <= Cardinality(MyUnits)
    /\ Planned => Len(plan.instr) <= 1

\* a night round in which a builder and a warrior have both inserted an
\* instruction, the warrior's from a retreat
C2_Witness ==
    /\ Returned
    /\ is_round_night(round)
    /\ Len(sent) >= 2
    /\ plan.via \in {"cover", "escape"}

\* the instructions as a bag
BagOf(seq) == [e \in {seq[i] : i \in 1 .. Len(seq)} |->
                  Cardinality({i \in 1 .. Len(seq) : seq[i] = e})]

\* C3: every instruction inserted in a round is submitted exactly once in that
\* round, the buffer is empty when play() returns, and nothing of an earlier
\* round is submitted again.
C3_SubmittedOnceAndBufferEmptied ==
    /\ Returned => instruction_buffer = <<>> /\ BagOf(sent) = BagOf(inserted)
    /\ pc = "tasks" => BagOf(instruction_buffer) = BagOf(inserted) /\ sent = <<>>
    /\ pc = "play" => instruction_buffer = <<>> /\ inserted = <<>> /\ sent = <<>>

\* play() has returned in a later round, having inserted and submitted again
C3_Witness ==
    /\ Returned
    /\ round >= 1
    /\ Len(sent) >= 2
    /\ instruction_buffer = <<>>

\* the strength tier of a citizen
Tier(cit) == IF cit.type = "Builder" THEN BUILDER ELSE my_weapon(cit)

\* a citizen of another player stands on p
EnemyAt(p) == p \in Pos /\ cells[p].id # -1 /\ citizens[cells[p].id].player # me

\* the cells orthogonally adjacent to p
Around(p) == {Step(p, Directions[k]) : k \in 1 .. 4} \cap Pos

\* the highest tier among the enemies adjacent to p, or zero
StrongestAdjacent(p) ==
    LET tiers == {Tier(citizens[cells[q].id]) : q \in {r \in Around(p) : EnemyAt(r)}}
    IN  IF tiers = {} THEN 0 ELSE CHOOSE t \in tiers : \A u \in tiers : u <= t

\* C4 as stated: after build_board, the threat halo of every cell of the grid,
\* cells occupied by enemies included, is the tier of the strongest enemy
\* orthogonally adjacent to it, or zero if none is.
C4_HaloOnEveryCell ==
    pc # "play" => \A p \in Pos : -board_enemy(World, p) = StrongestAdjacent(p)

\* C4 amended: after build_board, the threat halo of every cell not occupied by
\* an enemy is the tier of the strongest enemy orthogonally adjacent to it, or
\* zero if none is, whatever the order of the scan; a cell occupied by an enemy
\* holds that enemy's life instead.
C4_HaloOffEnemyCells ==
    pc # "play" =>
        \A p \in Pos :
            IF EnemyAt(p) THEN board_enemy(World, p) = citizens[cells[p].id].life
            ELSE -board_enemy(World, p) = StrongestAdjacent(p)

\* a cell that holds no enemy between two enemies of different tiers, the
\* stronger one scanned first
C4_Witness ==
    /\ pc # "play"
    /\ \E p \in Pos : \E q, r \in Around(p) :
          /\ ~EnemyAt(p) /\ EnemyAt(q) /\ EnemyAt(r)
          /\ q[1] * Cols + q[2] < r[1] * Cols + r[2]
          /\ Tier(citizens[cells[q].id]) > Tier(citizens[cells[r].id])

\* the unit of the last task, its weapon and its cell
Unit == citizens[plan.id]
UnitWeapon == my_weapon(Unit)
UnitIsWarrior == Unit.type = "Warrior"

\* the cell an instruction of the last task is directed at
Target(instr) == Step(Unit.pos, instr.dir)

\* the danger rule: an enemy of a tier above weapon is adjacent to p, except on a
\* day round followed by a day round
Unsafe(p, weapon) ==
    /\ ~(is_round_day(round) /\ is_round_day(round + 1))
    /\ StrongestAdjacent(p) > weapon

\* p is a wall, or holds an enemy of a tier above the unit's weapon
WallOrStronger(p) ==
    \/ cells[p].type = "Building"
    \/ EnemyAt(p) /\ Tier(citizens[cells[p].id]) > UnitWeapon

\* the weapon the unit holds once it has moved onto p
WeaponOn(p) ==
    LET t == CASE cells[p].weapon = "Gun" -> GUN
               [] cells[p].weapon = "Bazooka" -> BAZOOKA
               [] OTHER -> 0
    IN  IF UnitIsWarrior /\ t > UnitWeapon THEN t ELSE UnitWeapon

C6_RetreatTargetsLegalCell ==
    Planned /\ plan.task \in {"builder_night_task", "warrior_night_task"}
            /\ ~plan.at.ret =>
        /\ plan.instr # <<>> =>
              Target(plan.instr[1]) \in Pos /\ ~WallOrStronger(Target(plan.instr[1]))
        /\ (\A p \in Around(Unit.pos) : WallOrStronger(p)) => plan.instr = <<>>

\* the money cells the last planner call has evaluated
MoneyLog == {plan.at.log[i] : i \in {j \in 1 .. Len(plan.at.log) :
                                        plan.at.log[j].kind = "money"}}

\* the distance of the closest citizen recorded for a money cell this round
ClosestNow(p) == plan.cur0[p].closest_dist

\* build_board recorded the money cell p last round
RecordedBefore(p) == p \in DOMAIN plan.prev0 /\ plan.prev0[p].type = "M"

\* C7 as stated: the profit of a currency cell is zero when another unit is
\* closer to it than the evaluating unit this round and was already closer last
\* round, its distance unchanged or not, and the currency value minus the path
\* distance in every other case.
C7_ZeroWhenOtherWasAlreadyCloser ==
    Planned =>
        \A e \in MoneyLog :
            e.profit =
                IF /\ ClosestNow(e.pos) < e.dist
                   /\ RecordedBefore(e.pos)
                   /\ plan.prev0[e.pos].closest_dist < e.dist
                THEN 0 ELSE MONEY_PROFIT - e.dist

\* the distance recorded for a money cell last round, zero without a record
ClosestBefore(p) ==
    IF RecordedBefore(p) THEN plan.prev0[p].closest_dist ELSE 0

\* C7 amended: the profit of a currency cell is zero when the currency value
\* minus the path distance is positive, the closest citizen recorded for the
\* cell this round is closer to it than the path distance of the evaluating
\* unit, and that recorded distance is smaller than the one recorded last round
\* (zero if there was none); it is the currency value minus the path distance
\* in every other case, that of an unchanged distance included.
C7_ZeroWhenCloserCitizenApproaches ==
    Planned =>
        \A e \in MoneyLog :
            e.profit =
                IF /\ MONEY_PROFIT - e.dist > 0
                   /\ ClosestNow(e.pos) < e.dist
                   /\ ClosestNow(e.pos) < ClosestBefore(e.pos)
                THEN 0 ELSE MONEY_PROFIT - e.dist

\* a money cell whose profit is forced to zero: a citizen of another player has
\* come closer to it than the unit is
C7_Witness ==
    /\ Planned
    /\ \E e \in MoneyLog :
          /\ e.profit = 0
          /\ MONEY_PROFIT - e.dist > 0
          /\ ClosestNow(e.pos) < ClosestBefore(e.pos)
          /\ ~plan.cur0[e.pos].closest_is_friendly

\* p is a no-brainer for the unit that is not unsafe to take: a better weapon
\* for a warrior, or at night an enemy of no higher tier, outside any barricade,
\* that the next hit kills
SafeNoBrainer(p) ==
    \/ /\ UnitIsWarrior
       /\ WeaponOn(p) > UnitWeapon
       /\ StrongestAdjacent(p) <= WeaponOn(p)
    \/ /\ is_round_night(round)
       /\ EnemyAt(p)
       /\ Tier(citizens[cells[p].id]) <= UnitWeapon
       /\ citizens[cells[p].id].life <= LifeLostInAttack
       /\ cells[p].resistance = -1
       /\ StrongestAdjacent(p) <= UnitWeapon

\* C8 as stated: whenever a neighbour of the unit is a no-brainer that is not
\* unsafe to take, approach_target inserts a move toward such a neighbour at the
\* top priority and returns without the general search, whatever the other
\* neighbours hold and in whatever order they are examined.
C8_FastPathWheneverApplicable ==
    Planned /\ (\E p \in Around(Unit.pos) : SafeNoBrainer(p)) =>
        /\ plan.at.ret
        /\ plan.at.path = "fast"
        /\ Len(plan.at.instr) = 1
        /\ plan.at.instr[1].priority = VERY_HIGH_PRIORITY
        /\ ~plan.at.instr[1].is_build
        /\ SafeNoBrainer(Target(plan.at.instr[1]))

\* the health below which a unit looks for food
Baseline == IF UnitIsWarrior THEN WarriorIniLife ELSE BuilderIniLife

\* the world of the last task with every food cell empty
WorldWithoutFood ==
    [World EXCEPT !.Board = [p \in DOMAIN Board |->
                                IF Board[p] = FOOD THEN EMPTY ELSE Board[p]]]

\* C9: for a unit whose health is not below its baseline, approach_target
\* computes no profit for a food cell, does not choose one as its target, and
\* returns and leaves what it would if every food cell were empty.
C9_HealthyUnitIgnoresFood ==
    Planned /\ Unit.life >= Baseline =>
        /\ \A i \in 1 .. Len(plan.at.log) : plan.at.log[i].kind # "food"
        /\ plan.at.best_pos # "null" => cells[plan.at.best_pos].bonus # "Food"
        /\ LET r == approach_target(WorldWithoutFood, plan.id, UnitIsWarrior,
                                    plan.cur0, plan.prev0, plan.nb0)
           IN  /\ r.ret = plan.at.ret
               /\ r.instr = plan.at.instr
               /\ r.best_pos = plan.at.best_pos
               /\ r.best_profit = plan.at.best_profit
               /\ r.cur = Cur
               /\ r.prev = Prev

\* the search of a healthy unit has dequeued a food cell two steps away
C9_Witness ==
    /\ Planned
    /\ Unit.life >= Baseline
    /\ \E k \in 1 .. Len(plan.at.order) :
          /\ cells[plan.at.order[k]].bonus = "Food"
          /\ plan.at.dist[plan.at.order[k]] = 2

\* p holds a barricade of the player, empty and below the share of the maximal
\* resistance up to which it is improved
Improvable(p) ==
    /\ cells[p].resistance > 0
    /\ cells[p].b_owner = me
    /\ cells[p].id = -1
    /\ cells[p].resistance < (BarricadeMaxResistance * PERCENT_BUILD) \div 100

\* p is empty, has threat halo zero and holds no barricade
FreeToBuild(p) ==
    /\ cells[p].type = "Street"
    /\ cells[p].bonus = "None"
    /\ cells[p].weapon = "NoWeapon"
    /\ cells[p].id = -1
    /\ cells[p].resistance = -1
    /\ StrongestAdjacent(p) = 0

\* the case of C10: a day round, a builder whose planner call reports no action,
\* no improvable barricade next to it, the counter below the quota, a cell next
\* to it free to build on
BuildCase ==
    /\ Planned
    /\ plan.task = "builder_day_task"
    /\ ~plan.at.ret
    /\ \A p \in Around(Unit.pos) : ~Improvable(p)
    /\ plan.nb0 < MaxNumBarricades
    /\ \E p \in Around(Unit.pos) : FreeToBuild(p)

\* C10: in that case exactly one instruction is inserted for the builder, a
\* build directed at a cell that is empty, has threat halo zero and holds no
\* barricade, and the structure counter grows by exactly one.
C10_BuilderBuildsOnFreeCell ==
    BuildCase =>
        /\ Len(plan.instr) = 1
        /\ plan.instr[1].is_build
        /\ plan.instr[1].id = plan.id
        /\ Target(plan.instr[1]) \in Pos
        /\ FreeToBuild(Target(plan.instr[1]))
        /\ num_barricades = plan.nb0 + 1

\* the case of C10 with a cell next to the builder that is not free to build on
C10_Witness ==
    /\ BuildCase
    /\ plan.nb0 = MaxNumBarricades - 1
    /\ \E p \in Around(Unit.pos) : ~FreeToBuild(p)

\* matrices left by some earlier round: every cell holds v
Stale(v) ==
    [Board |-> [p \in Pos |-> v], Board_Enemy |-> [p \in Pos |-> v],
     Board_Barricades |-> [p \in Pos |-> v], bonus |-> <<>>]

\* the values an earlier round may have left in a cell
StaleValues == {EMPTY, WALL, ENEMY_BAZOOKA, BAZOOKA}

\* C11: after build_board the three matrices are those build_board computes
\* from this round's host state whatever the matrices held before: nothing
\* written in an earlier round survives in any cell.
C11_MatricesFromThisRoundOnly ==
    pc # "play" =>
        \A v \in StaleValues :
            LET b == build_board(Stale(v), cells, citizens, round, Rows, Cols)
            IN  /\ b.Board = Board
                /\ b.Board_Enemy = Board_Enemy
                /\ b.Board_Barricades = Board_Barricades

\* a later round in which a citizen of another player has left the cell it
\* started on, and with it the cells its halo covered
C11_Witness ==
    /\ pc # "play"
    /\ round >= 1
    /\ \E id \in DOMAIN citizens :
          /\ citizens[id].player # me
          /\ IdAt(citizens[id].pos) # id
          /\ Board[CHOOSE p \in Pos : IdAt(p) = id] = EMPTY
          /\ Board_Enemy[CHOOSE p \in Pos : IdAt(p) = id] <= 0

\* C12 as stated: on a day round no move of any unit is directed at a cell that
\* holds a citizen of another player.
C12_NoDayMoveOntoEnemy ==
    (Planned /\ is_round_day(round)) =>
        \A k \in 1 .. Len(plan.instr) :
            ~plan.instr[k].is_build => ~EnemyAt(Target(plan.instr[k]))

\* the cost of entering q: one step, plus the turns a bazooka needs to demolish
\* the barricade on q
StepCost(q) ==
    LET r == Board_Barricades[q]
    IN  1 + ((IF r < 0 THEN -r ELSE r) \div BazookaStrengthDemolish)

\* one round of relaxation of the path costs D over the cells that are not walls
RelaxCosts(D) ==
    [q \in Pos |->
        LET via == {D[u] + StepCost(q) : u \in {v \in Around(q) : D[v] < USHRT_MAX}}
            all == IF Board[q] = WALL THEN {D[q]} ELSE {D[q]} \cup via
        IN  CHOOSE c \in all : \A d \in all : c <= d]

RECURSIVE CheapestCosts(_, _)
\* the costs of the cheapest paths after k more rounds of relaxation
CheapestCosts(D, k) == IF k = 0 THEN D ELSE CheapestCosts(RelaxCosts(D), k - 1)

\* the cost of the cheapest path from the pickup p to every cell
CostFrom(p) ==
    CheapestCosts([q \in Pos |-> IF q = p THEN 0 ELSE USHRT_MAX], Rows * Cols)

\* the costs of the paths from the pickup p to the citizens entitled to it
EntitledCosts(p) ==
    LET D == CostFrom(p)
    IN  {D[u] : u \in {v \in Pos : /\ ClosestEntitled(World, v, Cur[p], Board[p])
                                   /\ D[v] < USHRT_MAX}}

\* C13 as stated: the distance build_board records for a pickup is the cost of
\* the cheapest path to an entitled citizen, each step costing one plus the
\* resistance of the barricade on the entered cell divided by the demolition
\* rate of a bazooka.
C13_DistanceCountsBarricades ==
    (pc # "play" /\ plan.id = -1) =>
        \A p \in DOMAIN Cur :
            EntitledCosts(p) # {} =>
                /\ Cur[p].closest_dist \in EntitledCosts(p)
                /\ \A c \in EntitledCosts(p) : Cur[p].closest_dist <= c

\* the cells enqueued as initial directions, and every cell the search enqueued
SeedCells == {s.pos : s \in plan.at.seeds}
Enqueued == SeedCells \cup plan.at.pushed

\* the dequeued cells the search expanded from: all but the targets of an attack
Expanded ==
    {plan.at.order[i] : i \in 1 .. Len(plan.at.order)}
    \ {plan.at.log[i].pos : i \in {j \in 1 .. Len(plan.at.log) : plan.at.log[j].kind = "attack"}}

\* p is a wall, is unsafe for the unit in this round, or holds a stronger enemy
Barred(p) ==
    \/ cells[p].type = "Building"
    \/ Unsafe(p, UnitWeapon)
    \/ EnemyAt(p) /\ Tier(citizens[cells[p].id]) > UnitWeapon

\* C14 as stated: the search of approach_target enqueues no cell, as an initial
\* direction or by expansion, that is a wall, is unsafe for the current round
\* or holds a strictly stronger enemy.
C14_NothingBarredEnqueued ==
    Planned => \A p \in Enqueued : ~Barred(p)

\* C14: the initial directions are neighbours that are not walls, hold no enemy
\* of the unit's tier or above and, when they hold no enemy, are not unsafe for
\* the current round; the expansion enqueues every cell that is not a wall.
C14_SeedsFilteredExpansionOnlyWalls ==
    Planned =>
        /\ \A p \in SeedCells :
              /\ p \in Around(Unit.pos)
              /\ cells[p].type # "Building"
              /\ EnemyAt(p) => Tier(citizens[cells[p].id]) < UnitWeapon
              /\ ~EnemyAt(p) => ~Unsafe(p, UnitWeapon)
        /\ \A p \in plan.at.pushed : cells[p].type # "Building"
        /\ \A u \in Expanded :
              \A q \in Around(u) \ {Unit.pos} :
                  cells[q].type # "Building" => q \in Enqueued

\* a search that turned down a neighbour holding an enemy of the unit's tier or
\* above, and enqueued by expansion a cell that holds a stronger enemy
C14_Witness ==
    /\ Planned /\ plan.at.path = "search"
    /\ \E q \in Around(Unit.pos) \ SeedCells :
          EnemyAt(q) /\ Tier(citizens[cells[q].id]) >= UnitWeapon
    /\ \E p \in plan.at.pushed :
          EnemyAt(p) /\ Tier(citizens[cells[p].id]) > UnitWeapon

\* the task play() runs for the unit id in this round
TaskOf(id, cur, prev, nb) ==
    IF is_round_day(round)
    THEN IF citizens[id].type = "Builder"
         THEN builder_day_task(World, id, cur, prev, nb)
         ELSE warrior_day_task(World, id, cur, prev, nb)
    ELSE IF citizens[id].type = "Builder"
         THEN builder_night_task(World, id, cur, prev, nb)
         ELSE warrior_night_task(World, id, cur, prev, nb)

RECURSIVE TasksFrom(_, _, _, _)
\* the tasks of the units ids run one after the other, each on the records and
\* the structure counter the one before left
TasksFrom(ids, cur, prev, nb) ==
    IF ids = <<>> THEN <<>>
    ELSE LET r == TaskOf(Head(ids), cur, prev, nb)
         IN  <<[id |-> Head(ids), at |-> r.at, instr |-> r.instr, via |-> r.via,
                cur0 |-> cur, cur1 |-> r.cur, nb0 |-> nb, nb1 |-> r.nb]>>
             \o TasksFrom(Tail(ids), r.cur, r.prev, r.nb)

\* the units play() has run a task for in this round, in order
Processed ==
    LET all == builders(citizens) \o warriors(citizens)
    IN  SubSeq(all, 1, Len(all) - Len(todo))

\* the tasks of the round so far, from the records build_board left
RoundTasks ==
    TasksFrom(Processed,
              build_board(Stale(EMPTY), cells, citizens, round, Rows, Cols).bonus,
              Prev, barricades(cells))

\* the tasks of the round end with the task the state records, and insert what
\* the state holds
RoundTasksAgree ==
    Planned =>
        LET rt == RoundTasks
            last == rt[Len(rt)]
        IN  /\ last.id = plan.id /\ last.instr = plan.instr /\ last.via = plan.via
            /\ last.cur0 = plan.cur0 /\ last.cur1 = Cur /\ last.nb1 = num_barricades
            /\ last.at.log = plan.at.log /\ last.at.seeds = plan.at.seeds
            /\ inserted = [k \in 1 .. Len(inserted) |->
                              LET i == CHOOSE j \in 1 .. Len(rt) :
                                           /\ rt[j].instr # <<>>
                                           /\ Cardinality({l \in 1 .. j : rt[l].instr # <<>>}) = k
                              IN  rt[i].instr[1]]

\* approach_target has inserted a move for a unit whose own cell is unsafe and
\* whose life does not exceed the damage of one hit
ImminentEscape(t) ==
    /\ t.at.ret
    /\ Unsafe(citizens[t.id].pos, my_weapon(citizens[t.id]))
    /\ citizens[t.id].life <= LifeLostInAttack

\* C15 as stated: the move approach_target inserts for a unit about to die on an
\* unsafe cell has a priority no move of the general search for another unit
\* in the same round exceeds.
C15_ImminentEscapeOutranksSearchMoves ==
    Planned =>
        LET rt == RoundTasks
        IN  \A i, j \in 1 .. Len(rt) :
                (i # j /\ ImminentEscape(rt[i]) /\ rt[j].at.path = "search") =>
                    rt[j].at.instr[1].priority <= rt[i].at.instr[1].priority

\* an imminent-death escape found by the general search, next to a move of the
\* general search for another unit
C15_Witness ==
    /\ Planned
    /\ LET rt == RoundTasks
       IN  \E i, j \in 1 .. Len(rt) :
               /\ i # j /\ ImminentEscape(rt[i]) /\ rt[i].at.path = "search"
               /\ rt[i].at.instr[1].priority = RUN_DEATH_PRIORITY
               /\ rt[j].at.path = "search"

\* the cell the move of the task t is directed at
Dest(t) == Step(citizens[t.id].pos, t.at.instr[1].dir)

\* C15: the general search gives the move of a unit about to die on an unsafe
\* cell the priority RUN_DEATH_PRIORITY; a move of the general search for
\* another unit has a higher priority only if that unit's cell is not unsafe,
\* its first step is an enemy's cell or a cell next to an enemy, and its profit,
\* which is then its priority, is higher.
C15_ImminentEscapeOutrankedOnlyByProfit ==
    Planned =>
        LET rt == RoundTasks
        IN  \A i \in 1 .. Len(rt) :
                (ImminentEscape(rt[i]) /\ rt[i].at.path = "search") =>
                    /\ rt[i].at.instr[1].priority = RUN_DEATH_PRIORITY
                    /\ \A j \in (1 .. Len(rt)) \ {i} :
                          rt[j].at.path = "search" =>
                              \/ rt[j].at.instr[1].priority <= RUN_DEATH_PRIORITY
                              \/ /\ ~Unsafe(citizens[rt[j].id].pos,
                                            my_weapon(citizens[rt[j].id]))
                                 /\ Board_Enemy[Dest(rt[j])] # 0
                                 /\ rt[j].at.instr[1].priority = rt[j].at.best_profit

\* p holds an enemy the unit kills with one hit: of the unit's tier or below, at
\* night, outside any barricade, with no more life than one hit takes
Killable(p) ==
    /\ is_round_night(round)
    /\ EnemyAt(p)
    /\ Tier(citizens[cells[p].id]) <= UnitWeapon
    /\ citizens[cells[p].id].life <= LifeLostInAttack
    /\ cells[p].resistance = -1

\* C16 as stated: when the only neighbour of the unit that is an obvious choice
\* holds a killable enemy, and an enemy of a tier above the unit's weapon is
\* adjacent to that neighbour, approach_target inserts no move for the unit.
C16_HoldsWhenKillIsNextToStronger ==
    Planned =>
        \A q \in Around(Unit.pos) :
            (/\ Killable(q)
             /\ StrongestAdjacent(q) > UnitWeapon
             /\ \A p \in Around(Unit.pos) \ {q} : ~Killable(p) /\ WeaponOn(p) = UnitWeapon)
            => plan.at.instr = <<>>

\* the task t ended with a move of the general search whose target is a weapon
\* the unit goes for only to keep it from an enemy
StealMove(t) ==
    t.at.path = "search" /\ t.instr # <<>> /\ t.at.best_kind = "steal"

\* C17: a move whose target is a weapon to steal leaves the unit recorded as the
\* closest friendly contender of that weapon, no unit processed later in the
\* round chooses the same weapon as a target to steal, and a task changes the
\* records of the round only that way.
C17_StolenWeaponMarkedOnce ==
    Planned =>
        LET rt == RoundTasks
        IN  \A i \in 1 .. Len(rt) :
                /\ StealMove(rt[i]) =>
                      /\ rt[i].cur1[rt[i].at.best_pos].closest_is_friendly
                      /\ \A j \in (i + 1) .. Len(rt) :
                            rt[j].at.best_kind = "steal" =>
                                rt[j].at.best_pos # rt[i].at.best_pos
                /\ \A p \in DOMAIN rt[i].cur0 :
                      rt[i].cur1[p] # rt[i].cur0[p] =>
                          /\ StealMove(rt[i])
                          /\ p = rt[i].at.best_pos

\* a unit has moved to steal a weapon, and a unit processed after it would have
\* chosen the same weapon to steal had the record been left as build_board made it
C17_Witness ==
    /\ Planned
    /\ LET rt == RoundTasks
       IN  \E i \in 1 .. Len(rt) : \E j \in (i + 1) .. Len(rt) :
               /\ StealMove(rt[i])
               /\ LET alt == approach_target(World, rt[j].id,
                                             citizens[rt[j].id].type = "Warrior",
                                             rt[i].cur0, Prev, rt[j].nb0)
                  IN  alt.best_kind = "steal" /\ alt.best_pos = rt[i].at.best_pos

\* the tasks of the round that proposed a new barricade
NewBuilds(rt) == {i \in 1 .. Len(rt) : rt[i].via \in {"build", "build_any"}}

\* C18: when the host reports no more barricades of mine than the quota, the
\* structure counter is the number of those barricades plus the number of new
\* barricades proposed in the round, it never exceeds the quota, and a builder
\* processed with the counter at the quota proposes a build only on a cell that
\* holds a barricade.
C18_CounterWithinQuota ==
    (Planned /\ barricades(cells) <= MaxNumBarricades) =>
        LET rt == RoundTasks
        IN  /\ num_barricades = barricades(cells) + Cardinality(NewBuilds(rt))
            /\ num_barricades <= MaxNumBarricades
            /\ \A i \in 1 .. Len(rt) :
                  /\ rt[i].nb0 <= rt[i].nb1
                  /\ (rt[i].nb0 = MaxNumBarricades /\ rt[i].instr # <<>>
                      /\ rt[i].instr[1].is_build) =>
                         cells[Step(citizens[rt[i].id].pos, rt[i].instr[1].dir)].resistance > 0

\* a round in which a new barricade brought the counter to the quota and a
\* builder processed after it had nowhere to move and a free cell at its side
C18_Witness ==
    /\ Planned
    /\ barricades(cells) < MaxNumBarricades
    /\ LET rt == RoundTasks
       IN  \E i \in NewBuilds(rt) : \E j \in (i + 1) .. Len(rt) :
               /\ rt[j].nb0 = MaxNumBarricades
               /\ rt[j].via = "quota"
               /\ \E p \in Around(citizens[rt[j].id].pos) :
                     cells[p].type = "Street" /\ cells[p].id = -1
                     /\ cells[p].resistance = -1 /\ cells[p].bonus = "None"
                     /\ cells[p].weapon = "NoWeapon"

\* the money and weapon cells of the board the host shows
PickupCells ==
    {p \in Pos : /\ cells[p].type = "Street"
                 /\ \/ cells[p].bonus = "Money"
                    \/ cells[p].bonus = "None" /\ cells[p].weapon # "NoWeapon"}

\* what a step of play() does to the two generations of records
GenerationsStep ==
    /\ (pc = "play" /\ round >= 1) =>
          /\ bonus_distances' # bonus_distances_prev'
          /\ Prev' = Cur
          /\ DOMAIN Cur' = PickupCells
          /\ \A p \in DOMAIN Cur' :
                Cur'[p].type = IF cells[p].bonus = "Money" THEN "M" ELSE "W"
    /\ (pc = "tasks" /\ round >= 1) =>
          /\ bonus_distances' = bonus_distances
          /\ bonus_distances_prev' = bonus_distances_prev
          /\ DOMAIN Cur' = DOMAIN Cur
          /\ \A p \in DOMAIN Prev : p \in DOMAIN Prev' /\ Prev'[p] = Prev[p]
    /\ pc = "host" => Cur' = Cur /\ bonus_distances' = bonus_distances

\* C19: from round 1 on the two generations are distinct maps while the units
\* are planned; build_board leaves in the current one a record for each money
\* or weapon cell of the board and no other; the previous one is the current
\* one of the round before as that round left it, and planning changes none of
\* the records it holds.
C19_TwoGenerationsOneRoundApart == [][GenerationsStep]_vars

\* planning in a later round with a record of the round before that differs from
\* this round's record for the cell, or whose cell has no record this round
C19_Witness ==
    /\ pc = "tasks" /\ plan.id # -1 /\ round >= 1
    /\ bonus_distances # bonus_distances_prev
    /\ \E p \in DOMAIN Prev :
          /\ Prev[p].type # "U"
          /\ p \notin DOMAIN Cur \/ Cur[p] # Prev[p]
    /\ \E p \in DOMAIN Cur : p \in DOMAIN Prev /\ Prev[p].type # "U"

\* p can be entered by the unit, is not unsafe, and none of its neighbours is
FullySafe(p) ==
    /\ cells[p].type # "Building"
    /\ EnemyAt(p) => Tier(citizens[cells[p].id]) < UnitWeapon
    /\ ~Unsafe(p, UnitWeapon)
    /\ \A q \in Around(p) : ~Unsafe(q, UnitWeapon)

\* the general search of the last task went through both of its seeding loops
Seeded == Planned /\ plan.at.path \notin {"fast", "wait"}

\* C20 as stated: neighbours that are only not unsafe themselves are enqueued
\* as initial directions only if no neighbour is fully safe; the move of the
\* search goes to one of the enqueued neighbours, a fully safe one whenever
\* there is one.
C20_StagedSeeding ==
    Seeded =>
        /\ (\E s \in plan.at.seeds : s.stage = 2) =>
               ~\E p \in Around(Unit.pos) : FullySafe(p)
        /\ plan.at.path = "search" =>
               /\ \E s \in plan.at.seeds :
                     s.dir = plan.at.instr[1].dir /\ s.pos = Target(plan.at.instr[1])
               /\ (\E p \in Around(Unit.pos) : FullySafe(p)) =>
                      FullySafe(Target(plan.at.instr[1]))

\* the danger rule as the seeding sees it: a cell that holds an enemy is the
\* target of an attack made from the unit's own cell and counts as not unsafe
SeenUnsafe(p) == ~EnemyAt(p) /\ Unsafe(p, UnitWeapon)

\* p can be entered and is not unsafe as the seeding sees it
NotUnsafeStep(p) ==
    /\ cells[p].type # "Building"
    /\ EnemyAt(p) => Tier(citizens[cells[p].id]) < UnitWeapon
    /\ ~SeenUnsafe(p)

\* p is moreover surrounded by cells that are not unsafe as the seeding sees it
SafeStep(p) == NotUnsafeStep(p) /\ \A q \in Around(p) : ~SeenUnsafe(q)

\* C20: with a cell that holds an enemy counted as not unsafe, the initial
\* directions are the fully safe neighbours if there is one and the neighbours
\* that are not unsafe themselves otherwise, and the move of the search goes to
\* one of the initial directions, hence to a fully safe neighbour whenever
\* there is one.
C20_StagedSeedingAsSeen ==
    Seeded =>
        LET safe == {p \in Around(Unit.pos) : SafeStep(p)}
            open == {p \in Around(Unit.pos) : NotUnsafeStep(p)}
        IN  /\ safe # {} => /\ SeedCells = safe
                            /\ \A s \in plan.at.seeds : s.stage = 1
            /\ safe = {} => /\ SeedCells = open
                            /\ \A s \in plan.at.seeds : s.stage = 2
            /\ \A s \in plan.at.seeds : s.pos = Step(Unit.pos, s.dir)
            /\ plan.at.path = "search" =>
                   /\ Target(plan.at.instr[1]) \in SeedCells
                   /\ safe # {} => SafeStep(Target(plan.at.instr[1]))

\* the search moves a unit that has no fully safe neighbour to a neighbour
\* that is not unsafe itself, past a neighbour that is unsafe
C20_Witness ==
    /\ Seeded /\ plan.at.path = "search"
    /\ \E s \in plan.at.seeds : s.stage = 2 /\ s.pos = Target(plan.at.instr[1])
    /\ \A p \in Around(Unit.pos) : ~SafeStep(p)
    /\ \E p \in Around(Unit.pos) : cells[p].type # "Building" /\ SeenUnsafe(p)

RECURSIVE RelaxSteps(_, _)
\* one sweep over the cells from the k-th on: a cell that is not a wall is one
\* step further than the nearest of its neighbours
RelaxSteps(D, k) ==
    IF k > Rows * Cols THEN D
    ELSE LET q == ScanOrder(Rows, Cols)[k]
             all == IF cells[q].type = "Building" THEN {D[q]}
                    ELSE {D[q]} \cup {D[u] + 1 : u \in {v \in Around(q) : D[v] < USHRT_MAX}}
         IN  RelaxSteps([D EXCEPT ![q] = CHOOSE c \in all : \A d \in all : c <= d], k + 1)

RECURSIVE StepCounts(_, _)
\* the step counts after k more sweeps
StepCounts(D, k) == IF k = 0 THEN D ELSE StepCounts(RelaxSteps(D, 1), k - 1)

\* the number of steps from the pickup p to every cell, through any cell that is
\* not a wall, citizens' cells included
StepsFrom(p) ==
    StepCounts([q \in Pos |-> IF q = p THEN 0 ELSE USHRT_MAX], Rows * Cols)

\* the tier of the weapon that lies on p
PickupTier(p) == IF cells[p].weapon = "Gun" THEN GUN ELSE BAZOOKA

\* the cells that hold a citizen entitled to the pickup p: any citizen for
\* money, a combatant of a tier below the weapon's otherwise
EntitledTo(p) ==
    {u \in Pos : /\ cells[u].id # -1
                 /\ \/ cells[p].bonus = "Money"
                    \/ /\ citizens[cells[u].id].type = "Warrior"
                       /\ Tier(citizens[cells[u].id]) < PickupTier(p)}

\* build_board has just run
Built == pc = "tasks" /\ plan.id = -1

\* C21: the record build_board leaves for a pickup holds the step count and the
\* side of an entitled citizen no other entitled citizen is closer than: any
\* citizen for money, only a combatant of a tier strictly below the weapon's
\* for a weapon, however many citizens that are not entitled stand closer or
\* on the way; with no entitled citizen in reach the record keeps its default.
C21_ClosestEntitledRecorded ==
    Built =>
        \A p \in DOMAIN Cur :
            LET D == StepsFrom(p)
                ent == {u \in EntitledTo(p) : D[u] < USHRT_MAX}
            IN  IF ent = {}
                THEN Cur[p].closest_dist = 0 /\ ~Cur[p].closest_is_friendly
                ELSE \E u \in ent :
                        /\ \A v \in ent : D[u] <= D[v]
                        /\ Cur[p].closest_dist = D[u]
                        /\ Cur[p].closest_is_friendly = (citizens[cells[u].id].player = me)

\* a weapon whose recorded citizen stands behind a citizen that is not entitled
\* to it, on the only way from the weapon
C21_Witness ==
    /\ Built
    /\ \E p \in DOMAIN Cur :
          /\ cells[p].weapon # "NoWeapon"
          /\ Cur[p].closest_dist > 0
          /\ \E q \in Around(p) :
                /\ cells[q].id # -1 /\ q \notin EntitledTo(p)
                /\ \A r \in Around(p) \ {q} : cells[r].type = "Building"
                /\ Cur[p].closest_dist > StepsFrom(p)[q]

\* the cells of a sequence are all different
Distinct(seq) == \A i, j \in 1 .. Len(seq) : seq[i] = seq[j] => i = j

\* the cells of a sequence
CellsOf(seq) == {seq[i] : i \in 1 .. Len(seq)}

\* the proximity search build_board runs for the pickup p, with its working state
ProximitySearch(p) == ClosestSearch(p, Bonus_Info(Cur[p].type), World)

\* the cells joined to p by steps that enter no wall
ConnectedTo(p) == {q \in Pos : StepsFrom(p)[q] < USHRT_MAX}

\* C22: both searches end, each having treated no cell twice.  The planner's
\* search ends with its queue exhausted: the dequeued cells are exactly the
\* enqueued ones, edges of cost zero included.  The proximity search ends on an
\* entitled citizen or with its queue exhausted; with no entitled citizen in
\* reach it has treated every cell joined to the pickup by steps that enter
\* no wall, and the record keeps its default, distance 0 and not friendly.
C22_SearchesExhaustQueueOncePerCell ==
    /\ Seeded => /\ Distinct(plan.at.order)
                 /\ CellsOf(plan.at.order) = Enqueued
    /\ Built =>
          \A p \in DOMAIN Cur :
              LET s == ProximitySearch(p)
                  reach == ConnectedTo(p)
              IN  /\ s.info = Cur[p]
                  /\ Distinct(s.order)
                  /\ CellsOf(s.order) \subseteq reach
                  /\ s.found \/ s.Q = <<>>
                  /\ s.found <=> EntitledTo(p) \cap reach # {}
                  /\ ~s.found => /\ CellsOf(s.order) = reach
                                 /\ Cur[p].closest_dist = 0
                                 /\ ~Cur[p].closest_is_friendly

\* a planner's search that enqueued one of its initial cells a second time and
\* crossed an edge of cost zero into an enemy about to die, on a grid with a
\* weapon no citizen in reach is entitled to, whose proximity search treated
\* all the cells joined to it, citizens' cells among them
C22_Witness ==
    /\ Seeded
    /\ SeedCells \cap plan.at.pushed # {}
    /\ \E u \in CellsOf(plan.at.order) :
          \E v \in Around(u) \cap CellsOf(plan.at.order) \cap plan.at.pushed :
              /\ cells[v].id # -1
              /\ citizens[cells[v].id].player # me
              /\ citizens[cells[v].id].life < LifeLostInAttack
              /\ plan.at.dist[v] = plan.at.dist[u]
    /\ \E p \in PickupCells :
          LET s == ClosestSearch(p, Bonus_Info("W"), World)
          IN  /\ cells[p].weapon # "NoWeapon"
              /\ EntitledTo(p) \cap ConnectedTo(p) = {}
              /\ \E q \in ConnectedTo(p) : cells[q].id # -1
              /\ Cardinality(ConnectedTo(p)) >= 4
              /\ ~s.found /\ s.Q = <<>>
              /\ Len(s.order) = Cardinality(ConnectedTo(p))

====
